---- MODULE Spec2Model ----
(***************************************************************************)
(* Reading-progress ledger of the Bookshelf plugin.                        *)
(*                                                                         *)
(* A document is a text; the model keeps a text as the sequence of lines   *)
(* that String.split('\n') returns for it, so the last element is the      *)
(* unterminated tail (the empty line when the text ends with a newline).   *)
(* A line is a record [k, ind, key, v]: k is the shape of the line, ind    *)
(* its indentation, key the text before the first colon (header lines) or  *)
(* the heading text (body lines) and v the characters of its value.  A     *)
(* string is a sequence of one-character strings; dates, timestamps and    *)
(* words that contain no digit, quote, bracket, comma or space are kept    *)
(* as one atom.                                                            *)
(***************************************************************************)
EXTENDS Integers, Sequences, FiniteSets, Bags, TLC

VARIABLES
    content,   \* the text of the book note
    clock,     \* seconds elapsed since the note was created
    auto,      \* settings.autoStatusChange
    log,       \* history variable: the records the progress updates created
    last,      \* history variable: the last operation and the text it read
    fmIn,      \* a header mapping handed to the codec or the mapper
    fmOut,     \* the mapping the codec returned
    book,      \* the book the mapper returned
    stage,     \* position of the codec / mapper / statistics run
    books,     \* the library the statistics view reads
    stats,     \* the statistics the view computed
    sched      \* events, timers and handlers in flight

vars == <<content, clock, auto, log, last, fmIn, fmOut, book, stage, books, stats, sched>>

(***************************************************************************)
(* Bounds                                                                  *)
(***************************************************************************)
MaxUpdates == 2

(***************************************************************************)
(* Characters and numbers                                                  *)
(***************************************************************************)
DQ == "\""
SQ == "'"
BS == "\\"

DigitStr == <<"0", "1", "2", "3", "4", "5", "6", "7", "8", "9">>

IsDigit(c) == \E d \in 1..10 : DigitStr[d] = c

DigitVal(c) == (CHOOSE d \in 1..10 : DigitStr[d] = c) - 1

RECURSIVE Digits(_)
\* String(n) for an integer n
Digits(n) ==
    IF n < 0 THEN <<"-">> \o Digits(0 - n)
    ELSE IF n < 10 THEN <<DigitStr[n + 1]>>
    ELSE Digits(n \div 10) \o <<DigitStr[(n % 10) + 1]>>

\* /^\d+$/.test(s)
AllDigits(s) == Len(s) > 0 /\ \A i \in 1..Len(s) : IsDigit(s[i])

RECURSIVE ParseInt(_)
\* parseInt(s, 10) of a string of digits
ParseInt(s) ==
    IF Len(s) = 0 THEN 0
    ELSE 10 * ParseInt(SubSeq(s, 1, Len(s) - 1)) + DigitVal(s[Len(s)])

Min(S) == CHOOSE x \in S : \A y \in S : x <= y

Max2(a, b) == IF a >= b THEN a ELSE b

\* String.prototype.trim
RECURSIVE Trim(_)
Trim(s) ==
    IF Len(s) = 0 THEN s
    ELSE IF s[1] = " " THEN Trim(Tail(s))
    ELSE IF s[Len(s)] = " " THEN Trim(SubSeq(s, 1, Len(s) - 1))
    ELSE s

\* s.slice(1, -1)
Slice1(s) == IF Len(s) <= 2 THEN <<>> ELSE SubSeq(s, 2, Len(s) - 1)

StartsWith(s, c) == Len(s) > 0 /\ s[1] = c

EndsWith(s, c) == Len(s) > 0 /\ s[Len(s)] = c

\* (v.startsWith('"') && v.endsWith('"')) || (v.startsWith("'") && v.endsWith("'"))
IsQuoted(s) ==
    \/ StartsWith(s, DQ) /\ EndsWith(s, DQ)
    \/ StartsWith(s, SQ) /\ EndsWith(s, SQ)

Unquote(s) == IF IsQuoted(s) THEN Slice1(s) ELSE s

RECURSIVE SplitComma(_)
\* s.split(',')
SplitComma(s) ==
    IF \A i \in 1..Len(s) : s[i] # ","
    THEN <<s>>
    ELSE LET p == Min({i \in 1..Len(s) : s[i] = ","})
         IN <<SubSeq(s, 1, p - 1)>> \o SplitComma(SubSeq(s, p + 1, Len(s)))

RECURSIVE EscapeQuotes(_)
\* value.replace(/"/g, '\\"')
EscapeQuotes(s) ==
    IF Len(s) = 0 THEN <<>>
    ELSE (IF s[1] = DQ THEN <<BS, DQ>> ELSE <<s[1]>>) \o EscapeQuotes(Tail(s))

(***************************************************************************)
(* Values of a header mapping (Record<string, any>)                        *)
(***************************************************************************)
Str(s) == [t |-> "str", s |-> s, n |-> 0, items |-> <<>>, recs |-> <<>>]

Num(n) == [t |-> "num", s |-> <<>>, n |-> n, items |-> <<>>, recs |-> <<>>]

Bool(b) == [t |-> "bool", s |-> <<>>, n |-> IF b THEN 1 ELSE 0, items |-> <<>>, recs |-> <<>>]

\* null
Null == [t |-> "null", s |-> <<>>, n |-> 0, items |-> <<>>, recs |-> <<>>]

\* undefined
Undef == [t |-> "undef", s |-> <<>>, n |-> 0, items |-> <<>>, recs |-> <<>>]

\* the numbers NaN and Infinity
NaN == [t |-> "nan", s |-> <<>>, n |-> 0, items |-> <<>>, recs |-> <<>>]

Infinity == [t |-> "inf", s |-> <<>>, n |-> 0, items |-> <<>>, recs |-> <<>>]

\* typeof v === 'number'
IsNumber(v) == v.t \in {"num", "nan", "inf"}

\* an array: its scalar elements followed by its record elements
Arr(items, recs) == [t |-> "arr", s |-> <<>>, n |-> 0, items |-> items, recs |-> recs]

\* a mapping is the sequence of its entries in insertion order
entry(key, val) == [key |-> key, val |-> val]

Has(fm, key) == \E i \in 1..Len(fm) : fm[i].key = key

Get(fm, key) == fm[CHOOSE i \in 1..Len(fm) : fm[i].key = key].val

\* fm[key] = val: an existing key keeps its place, a new one goes last
Set(fm, key, val) ==
    IF Has(fm, key)
    THEN [i \in 1..Len(fm) |-> IF fm[i].key = key THEN [key |-> key, val |-> val] ELSE fm[i]]
    ELSE Append(fm, [key |-> key, val |-> val])

\* !fm[key]
Falsy(fm, key) ==
    \/ ~Has(fm, key)
    \/ Get(fm, key).t = "str" /\ Get(fm, key).s = <<>>
    \/ Get(fm, key).t = "num" /\ Get(fm, key).n = 0
    \/ Get(fm, key).t = "bool" /\ Get(fm, key).n = 0
    \/ Get(fm, key).t \in {"null", "undef", "nan"}

(***************************************************************************)
(* Lines                                                                   *)
(***************************************************************************)
Line(k, ind, key, v) == [k |-> k, ind |-> ind, key |-> key, v |-> v]

Delim == Line("---", 0, "", <<>>)

Blank == Line("blank", 0, "", <<>>)

KV(ind, key, v) == Line("kv", ind, key, v)

IsBlank(l) == l.k = "blank"

(***************************************************************************)
(* Header codec (FrontmatterProcessor)                                     *)
(***************************************************************************)
\* /^---\s*\n([\s\S]*?)\n---\s*\n/ on the lines of a text.  The opening
\* delimiter is line 1; \s*\n swallows the blank lines after it; the lazy
\* group ends before the first later "---" line that a newline ends; the
\* trailing \s*\n swallows the blank lines after the closing delimiter.
\* from/to are the lines of group 1 (from > to when the group is empty),
\* body is the first line after the match.
matchFrontmatter(text) ==
    LET n == Len(text)
        c == Min({i \in 2..n : ~IsBlank(text[i])} \cup {n + 1})
        J == {j \in 2..(n - 1) : text[j] = Delim /\ j > c}
        bodyAt(j) == Min({i \in (j + 1)..n : ~IsBlank(text[i])} \cup {n})
    IN  IF n < 2 \/ text[1] # Delim
        THEN [ok |-> FALSE, from |-> 0, to |-> 0, body |-> 1]
        ELSE IF J # {}
        THEN [ok |-> TRUE, from |-> c, to |-> Min(J) - 1, body |-> bodyAt(Min(J))]
        ELSE IF c >= 3 /\ c <= n - 1 /\ text[c] = Delim
        THEN [ok |-> TRUE, from |-> c, to |-> c - 1, body |-> bodyAt(c)]
        ELSE [ok |-> FALSE, from |-> 0, to |-> 0, body |-> 1]

\* the elements of an inline list: "[" ... "]" split on commas, each trimmed
\* and unquoted
parseArrayItems(v) ==
    LET ac == Trim(Slice1(v))
        parts == SplitComma(ac)
    IN  IF ac = <<>> THEN <<>>
        ELSE [i \in 1..Len(parts) |-> Str(Unquote(Trim(parts[i])))]

\* the value of one "key: value" line (lines 338-410 without the key tests)
parseValue(raw) ==
    LET v == Unquote(Trim(raw))
        isArr == StartsWith(v, "[") /\ EndsWith(v, "]")
        items == parseArrayItems(v)
    IN  IF isArr
        THEN \* /^\d+$/.test(array) tests the array's string form
             IF Len(items) = 1 /\ AllDigits(items[1].s)
             THEN Num(ParseInt(items[1].s))
             ELSE Arr(items, <<>>)
        ELSE IF AllDigits(v) THEN Num(ParseInt(v))
        ELSE IF v = <<"true">> THEN Bool(TRUE)
        ELSE IF v = <<"false">> THEN Bool(FALSE)
        ELSE Str(v)

\* reading_history_summary is always made an array (lines 371-396)
parseSummaryValue(raw) ==
    LET v == Unquote(Trim(raw))
    IN  IF StartsWith(v, "[") /\ EndsWith(v, "]")
        THEN Arr(parseArrayItems(v), <<>>)
        ELSE Arr(<<>>, <<>>)

\* one iteration of the loop over the header's lines
parseLine(fm, line) ==
    IF line.k # "kv" THEN fm
    ELSE IF line.key = "reading_history" THEN fm
    ELSE IF line.key = "reading_history_summary"
    THEN Set(fm, line.key, parseSummaryValue(line.v))
    ELSE Set(fm, line.key, parseValue(line.v))

RECURSIVE parseLines(_, _)
parseLines(fm, lines) ==
    IF Len(lines) = 0 THEN fm
    ELSE parseLines(parseLine(fm, lines[1]), Tail(lines))

parseFrontmatter(text) ==
    LET m == matchFrontmatter(text)
    IN  IF ~m.ok \/ m.from > m.to THEN <<>>
        ELSE parseLines(<<>>, SubSeq(text, m.from, m.to))

extractFrontmatter(text) ==
    LET m == matchFrontmatter(text)
    IN  IF ~m.ok
        THEN [frontmatter |-> <<>>, body |-> text]
        ELSE [frontmatter |-> parseFrontmatter(text),
              body |-> SubSeq(text, m.body, Len(text))]

\* `"${item}"` for a string element, String(item) otherwise
formatItem(item) ==
    IF item.t = "str" THEN <<DQ>> \o item.s \o <<DQ>>
    ELSE IF item.t = "num" THEN Digits(item.n)
    ELSE IF item.t = "bool" THEN (IF item.n = 1 THEN <<"true">> ELSE <<"false">>)
    ELSE IF item.t = "nan" THEN <<"NaN">>
    ELSE IF item.t = "inf" THEN <<"Infinity">>
    ELSE <<"[object Object]">>

RECURSIVE joinItems(_)
\* .join(', ')
joinItems(parts) ==
    IF Len(parts) = 0 THEN <<>>
    ELSE IF Len(parts) = 1 THEN parts[1]
    ELSE parts[1] \o <<",", " ">> \o joinItems(Tail(parts))

\* the lines of one reading_history_summary record (lines 466-472)
summaryItemLines(item) ==
    <<KV(2, "- date", <<DQ>> \o item.date \o <<DQ>>),
      KV(4, "startPage", Digits(item.startPage)),
      KV(4, "endPage", Digits(item.endPage)),
      KV(4, "pagesRead", Digits(item.pagesRead))>>
    \o (IF item.timestamp # <<>>
        THEN <<KV(4, "timestamp", <<DQ>> \o item.timestamp \o <<DQ>>)>>
        ELSE <<>>)

RECURSIVE summaryLines(_)
summaryLines(recs) ==
    IF Len(recs) = 0 THEN <<>>
    ELSE summaryItemLines(recs[1]) \o summaryLines(Tail(recs))

\* the lines createFrontmatter pushes for one entry of the mapping
entryLines(e) ==
    LET key == e.key
        val == e.val
        all == [i \in 1..(Len(val.items) + Len(val.recs)) |->
                   IF i <= Len(val.items)
                   THEN formatItem(val.items[i])
                   ELSE <<"[object Object]">>]
    IN  IF val.t \in {"undef", "null"} THEN <<>>
        ELSE IF val.t = "arr"
        THEN IF Len(val.items) + Len(val.recs) = 0
             THEN (IF key = "reading_history_summary" THEN <<KV(0, key, <<"[", "]">>)>> ELSE <<>>)
             ELSE IF key = "reading_history_summary" /\ Len(val.items) = 0
             THEN <<KV(0, key, <<>>)>> \o summaryLines(val.recs)
             ELSE IF key = "reading_history" THEN <<>>
             ELSE IF Len(val.items) = 0
             THEN <<KV(0, key, <<>>)>>
                  \o [i \in 1..Len(val.recs) |-> Line("json", 2, "", <<"{...}">>)]
             ELSE <<KV(0, key, <<"[">> \o joinItems(all) \o <<"]">>)>>
        ELSE IF val.t = "str"
        THEN <<KV(0, key, <<DQ>> \o EscapeQuotes(val.s) \o <<DQ>>)>>
        ELSE <<KV(0, key, formatItem(val))>>

RECURSIVE entriesLines(_)
entriesLines(data) ==
    IF Len(data) = 0 THEN <<>>
    ELSE entryLines(data[1]) \o entriesLines(Tail(data))

createFrontmatter(data) == <<Delim>> \o entriesLines(data) \o <<Delim>>

\* `${frontmatterString}\n${body}`
joinDocument(data, body) == createFrontmatter(data) \o body

RECURSIVE mergeUpdates(_, _)
\* { ...frontmatter, ...updates }
mergeUpdates(fm, ups) ==
    IF Len(ups) = 0 THEN fm
    ELSE mergeUpdates(Set(fm, ups[1].key, ups[1].val), Tail(ups))

updateFrontmatter(text, ups) ==
    LET x == extractFrontmatter(text)
    IN  joinDocument(mergeUpdates(x.frontmatter, ups), x.body)

(***************************************************************************)
(* Body lines and reading records                                          *)
(***************************************************************************)
\* "# title"
H1(title) == Line("h1", 0, title, <<>>)

\* "## title"
H2(title) == Line("h2", 0, title, <<>>)

HistoryHeader == H2("Reading History")

\* "### date"
H3(date) == Line("h3", 0, "", date)

\* "- **label:** value"
Field(label, v) == Line("field", 0, label, v)

\* "label: value", a field line of a legacy entry
Label(label, v) == Line("label", 0, label, v)

\* "  text", a line of a record's notes
NoteLine(text) == Line("note", 2, "", text)

\* a paragraph line
TextLine(text) == Line("text", 0, text, <<>>)

\* a ReadingRecord; notes and timestamp are <<>> when undefined
Record(date, startPage, endPage, pagesRead, notes, timestamp) ==
    [date |-> date, startPage |-> startPage, endPage |-> endPage,
     pagesRead |-> pagesRead, notes |-> notes, timestamp |-> timestamp]

\* the summary entry pushed for a record (lines 690-696)
summaryOf(r) ==
    [date |-> r.date, startPage |-> r.startPage, endPage |-> r.endPage,
     pagesRead |-> r.pagesRead, timestamp |-> r.timestamp]

\* getCurrentDateTime(): the clock's second t, two seconds to a day
DayOf(t) == (t + 1) \div 2

timestampAt(t) == <<"T">> \o Digits(t)

dateAt(t) == <<"D">> \o Digits(DayOf(t))

\* the order localeCompare gives the strings a.timestamp || a.date || ''
sortKey(r) ==
    IF r.timestamp # <<>>
    THEN 10 * DayOf(ParseInt(Tail(r.timestamp))) + ParseInt(Tail(r.timestamp))
    ELSE IF r.date # <<>> THEN 10 * ParseInt(Tail(r.date))
    ELSE 0

(***************************************************************************)
(* parseReadingHistoryFromBody                                             *)
(***************************************************************************)
\* The first non-blank line after line i, or the tail.  A greedy \s*\n
\* swallows the blank lines, and a lazy [\s\S]*? followed by (?=...|$)
\* under the m flag stops at the first end of line.
lineAfter(lines, i) ==
    Min({j \in (i + 1)..Len(lines) : ~IsBlank(lines[j])} \cup {Len(lines)})

\* /^##\s+Reading History\s*\n([\s\S]*?)(?=\n##|\n#|$)/m : the header line
\* (a newline must end it) and the line the match extends to
matchHistorySection(body) ==
    LET H == {i \in 1..(Len(body) - 1) : body[i] = HistoryHeader}
    IN  IF H = {} THEN [ok |-> FALSE, at |-> 0, to |-> 0]
        ELSE [ok |-> TRUE, at |-> Min(H), to |-> lineAfter(body, Min(H))]

\* the field regexes on a record's text; a line written as
\* "- **Label:** value" matches the first alternative of its field only
Spellings(label) ==
    CASE label = "Start Page" -> {"Start Page", "Start", "From"}
      [] label = "End Page" -> {"End Page", "End", "To", "Page"}
      [] label = "Pages Read" -> {"Pages Read", "Pages", "Read"}
      [] OTHER -> {label}

\* the spellings that the text "key:" ends with, where a regex without
\* anchor finds them
EndingsOf(key) ==
    CASE key = "Start Page" -> {"Start Page", "Page"}
      [] key = "End Page" -> {"End Page", "Page"}
      [] key = "Pages Read" -> {"Pages Read", "Read"}
      [] OTHER -> {key}

fieldNumber(line, label) ==
    IF line.k = "field" /\ line.key = label /\ AllDigits(line.v)
    THEN ParseInt(line.v)
    ELSE IF line.k = "label" /\ Spellings(label) \cap EndingsOf(line.key) # {}
            /\ AllDigits(line.v)
    THEN ParseInt(line.v)
    ELSE 0

fieldText(line, label) ==
    IF line.k = "field" /\ line.key = label THEN Trim(line.v) ELSE <<>>

\* the record of one match of recordRegex: the date of the "### date" line
\* and the fields found in recordText (lines 730-763)
parseRecord(date, recordText) ==
    LET startPage == fieldNumber(recordText, "Start Page")
        endPage == fieldNumber(recordText, "End Page")
        found == fieldNumber(recordText, "Pages Read")
        pagesRead == IF found = 0 /\ endPage > startPage THEN endPage - startPage ELSE found
    IN  Record(date, startPage, endPage, pagesRead, <<>>, fieldText(recordText, "Timestamp"))

\* \d{4}-\d{2}-\d{2}
IsDate(v) == Len(v) >= 2 /\ v[1] = "D" /\ AllDigits(Tail(v))

RECURSIVE parseRecords(_, _)
\* the exec loop of recordRegex over historyContent from line i on: a match
\* starts at a "### date" line that a newline ends, and group 3 is the
\* line that lineAfter gives
parseRecords(hc, i) ==
    LET S == {j \in i..(Len(hc) - 1) : hc[j].k = "h3" /\ IsDate(hc[j].v)}
    IN  IF S = {} THEN <<>>
        ELSE LET j == Min(S)
                 e == lineAfter(hc, j)
             IN  <<parseRecord(hc[j].v, hc[e])>> \o parseRecords(hc, e + 1)

parseReadingHistoryFromBody(body) ==
    LET m == matchHistorySection(body)
    IN  IF ~m.ok \/ IsBlank(body[m.to]) THEN <<>>
        ELSE parseRecords(<<body[m.to]>>, 1)

(***************************************************************************)
(* updateReadingHistoryInBody                                              *)
(***************************************************************************)
RECURSIVE insertSorted(_, _)
\* r goes after every record whose key is not below its own
insertSorted(sorted, r) ==
    IF Len(sorted) = 0 THEN <<r>>
    ELSE IF sortKey(sorted[1]) >= sortKey(r)
    THEN <<sorted[1]>> \o insertSorted(Tail(sorted), r)
    ELSE <<r>> \o sorted

RECURSIVE sortNewestFirst(_)
\* [...history].sort((a, b) => dateB.localeCompare(dateA)), a stable sort
sortNewestFirst(history) ==
    IF Len(history) = 0 THEN <<>>
    ELSE insertSorted(sortNewestFirst(SubSeq(history, 1, Len(history) - 1)),
                      history[Len(history)])

\* the lines pushed for one record (lines 789-806)
recordLines(r) ==
    <<H3(IF r.date # <<>> THEN r.date ELSE <<"Unknown Date">>),
      Blank,
      Field("Start Page", Digits(r.startPage)),
      Field("End Page", Digits(r.endPage)),
      Field("Pages Read", Digits(r.pagesRead))>>
    \o (IF r.timestamp # <<>> THEN <<Field("Timestamp", r.timestamp)>> ELSE <<>>)
    \o (IF r.notes # <<>> THEN <<Field("Notes", <<>>), Blank, NoteLine(r.notes)>> ELSE <<>>)
    \o <<Blank>>

RECURSIVE recordsLines(_)
recordsLines(rs) ==
    IF Len(rs) = 0 THEN <<>>
    ELSE recordLines(rs[1]) \o recordsLines(Tail(rs))

\* historyLines.join('\n'): the header, a blank line and the records
historySection(history) ==
    <<HistoryHeader, Blank>> \o recordsLines(sortNewestFirst(history))

RECURSIVE trimLines(_)
\* body.trim(): the text without its leading and trailing blank lines
trimLines(body) ==
    IF Len(body) <= 1 THEN body
    ELSE IF IsBlank(body[1]) THEN trimLines(Tail(body))
    ELSE IF IsBlank(body[Len(body)]) THEN trimLines(SubSeq(body, 1, Len(body) - 1))
    ELSE body

\* /^(##\s+[^\n]+)/m : the first "## ..." heading
firstHeading(body) ==
    Min({i \in 1..Len(body) : body[i].k = "h2"} \cup {Len(body) + 1})

\* a variant that appends the section wherever a section already stands
appendHistoryToBody(body, history) ==
    trimLines(body) \o <<Blank>> \o historySection(history)

updateReadingHistoryInBody(body, history) ==
    LET section == historySection(history)
        m == matchHistorySection(body)
        f == firstHeading(body)
    IN  IF m.ok
        THEN SubSeq(body, 1, m.at - 1) \o section \o SubSeq(body, m.to + 1, Len(body))
        ELSE IF f <= Len(body)
        THEN SubSeq(body, 1, f - 1) \o section \o <<Blank>> \o SubSeq(body, f, Len(body))
        ELSE trimLines(body) \o <<Blank>> \o section

(***************************************************************************)
(* updateReadingProgress                                                   *)
(***************************************************************************)
\* an optional number: startPage?: number, totalPages?: number
None == [some |-> FALSE, n |-> 0]

Some(n) == [some |-> TRUE, n |-> n]

\* typeof fm[key] === 'number' ? fm[key] : undefined
numberOf(fm, key) ==
    IF Has(fm, key) /\ Get(fm, key).t = "num" THEN Some(Get(fm, key).n) ELSE None

\* lines 635-648: the status change when autoStatusChange is on
autoStatus(fm, page, totalPages, now) ==
    IF totalPages.some /\ totalPages.n # 0 /\ page >= totalPages.n
    THEN LET f == Set(fm, "status", Str(<<"finished">>))
         IN  IF Falsy(f, "read_finished") THEN Set(f, "read_finished", Str(now)) ELSE f
    ELSE IF page > 0 /\ Has(fm, "status") /\ Get(fm, "status") = Str(<<"unread">>)
    THEN LET f == Set(fm, "status", Str(<<"reading">>))
         IN  IF Falsy(f, "read_started") THEN Set(f, "read_started", Str(now)) ELSE f
    ELSE fm

\* lines 661-669: startPage, else lastRecord?.endPage || frontmatter.read_page || 0,
\* read after line 633 has stored page in frontmatter.read_page
recordStartPage(existingHistory, fm, startPage) ==
    IF startPage.some THEN startPage.n
    ELSE IF Len(existingHistory) > 0 /\ existingHistory[Len(existingHistory)].endPage # 0
    THEN existingHistory[Len(existingHistory)].endPage
    ELSE IF Has(fm, "read_page") /\ Get(fm, "read_page").t = "num"
    THEN Get(fm, "read_page").n
    ELSE 0

\* a variant without the clamp: page - startPage
pagesReadUnclamped(page, start) == page - start

\* Math.max(0, page - recordStartPage)
pagesReadOf(page, start) == Max2(0, page - start)

\* lines 672-679
newRecord(page, start, notes, t) ==
    Record(dateAt(t), start, page, pagesReadOf(page, start), notes, timestampAt(t))

\* a variant whose summary entry counts the pages from page 0
pushSummaryFromZero(fm, r) ==
    Set(fm, "reading_history_summary",
        Arr(<<>>, <<[summaryOf(r) EXCEPT !.pagesRead = r.endPage]>>))

\* lines 685-696: the summary is made an array and the entry is pushed
pushSummary(fm, r) ==
    LET old == IF Has(fm, "reading_history_summary")
                  /\ Get(fm, "reading_history_summary").t = "arr"
               THEN Get(fm, "reading_history_summary")
               ELSE Arr(<<>>, <<>>)
    IN  Set(fm, "reading_history_summary", Arr(old.items, Append(old.recs, summaryOf(r))))

\* FrontmatterProcessor.updateReadingProgress at clock second t; record is
\* the ReadingRecord it creates
progressUpdate(text, page, totalPages, notes, autoStatusChange, startPage, t) ==
    LET x == extractFrontmatter(text)
        fm1 == Set(x.frontmatter, "read_page", Num(page))
        fm2 == IF autoStatusChange THEN autoStatus(fm1, page, totalPages, timestampAt(t)) ELSE fm1
        fm3 == Set(fm2, "updated", Str(timestampAt(t)))
        existingHistory == parseReadingHistoryFromBody(x.body)
        r == newRecord(page, recordStartPage(existingHistory, fm3, startPage), notes, t)
        fm4 == pushSummary(fm3, r)
        updatedBody == updateReadingHistoryInBody(x.body, Append(existingHistory, r))
    IN  [content |-> joinDocument(fm4, updatedBody), record |-> r]

updateReadingProgress(text, page, totalPages, notes, autoStatusChange, startPage, t) ==
    progressUpdate(text, page, totalPages, notes, autoStatusChange, startPage, t).content

\* FileManagerUtils.updateReadingProgress: total pages as the header has them
totalPagesOf(text) ==
    LET fm == extractFrontmatter(text).frontmatter
    IN  IF numberOf(fm, "total").some THEN numberOf(fm, "total") ELSE numberOf(fm, "totalPages")

(***************************************************************************)
(* Book record mapper: frontmatterToBook                                   *)
(***************************************************************************)
RECURSIVE sumPagesRead(_)
\* reduce((sum, record) => sum + (record.pagesRead || 0), 0) over records
sumPagesRead(recs) ==
    IF Len(recs) = 0 THEN 0
    ELSE recs[1].pagesRead + sumPagesRead(Tail(recs))

\* a variant that takes the history total whenever there is a summary
calculateReadPageFromHistory(fm) ==
    IF Has(fm, "reading_history_summary") /\ Get(fm, "reading_history_summary").t = "arr"
    THEN sumPagesRead(Get(fm, "reading_history_summary").recs)
    ELSE IF Has(fm, "read_page") /\ Get(fm, "read_page").t = "num"
    THEN Get(fm, "read_page").n
    ELSE 0

\* lines 582-592 (FrontmatterConverter.calculateReadPage): a string element
\* of the array has no pagesRead and adds 0
calculateReadPage(fm) ==
    LET readPage == IF Has(fm, "read_page") /\ Get(fm, "read_page").t = "num"
                    THEN Get(fm, "read_page").n
                    ELSE 0
        totalFromHistory == sumPagesRead(Get(fm, "reading_history_summary").recs)
    IN  IF Has(fm, "reading_history_summary")
           /\ Get(fm, "reading_history_summary").t = "arr"
           /\ totalFromHistory > readPage
        THEN totalFromHistory
        ELSE readPage

\* an optional string: isbn10?: string
NoStr == [some |-> FALSE, s |-> <<>>]

SomeStr(s) == [some |-> TRUE, s |-> s]

RECURSIVE toString(_)
\* String(value)
toString(v) ==
    IF v.t = "str" THEN v.s
    ELSE IF v.t = "num" THEN Digits(v.n)
    ELSE IF v.t = "bool" THEN (IF v.n = 1 THEN <<"t", "r", "u", "e">> ELSE <<"f", "a", "l", "s", "e">>)
    ELSE IF v.t = "null" THEN <<"n", "u", "l", "l">>
    ELSE IF Len(v.items) = 0 THEN <<>>
    ELSE IF Len(v.items) = 1 THEN toString(v.items[1])
    ELSE toString(v.items[1]) \o <<",">> \o toString(Arr(Tail(v.items), <<>>))

RECURSIVE splitWhitespace(_)
\* s.split(/\s+/) of a trimmed string
splitWhitespace(s) ==
    IF \A i \in 1..Len(s) : s[i] # " "
    THEN <<s>>
    ELSE LET p == Min({i \in 1..Len(s) : s[i] = " "})
         IN  <<SubSeq(s, 1, p - 1)>> \o splitWhitespace(Trim(SubSeq(s, p + 1, Len(s))))

\* the last element of tokens that has length n: the loop of lines 572-578
\* assigns at every token of that length
lastOfLength(tokens, n) ==
    LET S == {i \in 1..Len(tokens) : Len(tokens[i]) = n}
    IN  IF S = {} THEN NoStr
        ELSE SomeStr(tokens[CHOOSE i \in S : \A j \in S : j <= i])

\* lines 568-580 (FrontmatterConverter.extractIsbn)
extractIsbn(fm) ==
    LET isbns == IF Falsy(fm, "isbn") THEN <<>>
                 ELSE splitWhitespace(Trim(toString(Get(fm, "isbn"))))
    IN  [isbn10 |-> lastOfLength(isbns, 10), isbn13 |-> lastOfLength(isbns, 13)]

\* record.pagesRead of an element that is null: a TypeError in the reducer
decodeThrows(fm) ==
    /\ Has(fm, "reading_history_summary")
    /\ Get(fm, "reading_history_summary").t = "arr"
    /\ \E i \in 1..Len(Get(fm, "reading_history_summary").items) :
           Get(fm, "reading_history_summary").items[i].t = "null"

\* frontmatter[key], undefined when the key is absent
valueOf(fm, key) == IF Has(fm, key) THEN Get(fm, key) ELSE Undef

\* frontmatter[key] || fallback
valueOr(fm, key, fallback) == IF Falsy(fm, key) THEN fallback ELSE Get(fm, key)

\* Array.isArray(frontmatter[key]) ? frontmatter[key] : []
arrayOf(fm, key) ==
    IF Has(fm, key) /\ Get(fm, key).t = "arr" THEN Get(fm, key) ELSE Arr(<<>>, <<>>)

\* a variant that stamps the book with the current time
createdNow(fm, now) == Str(now)

\* frontmatter.created || getCurrentDateTime()
createdOf(fm, now) == valueOr(fm, "created", Str(now))

\* lines 594-611; now is getCurrentDateTime()
frontmatterToBook(fm, now) ==
    [title |-> valueOr(fm, "title", Str(<<>>)),
     subtitle |-> valueOf(fm, "subtitle"),
     author |-> arrayOf(fm, "author"),
     category |-> arrayOf(fm, "category"),
     publisher |-> valueOf(fm, "publisher"),
     publishDate |-> valueOf(fm, "publish"),
     totalPages |-> IF IsNumber(valueOf(fm, "total")) THEN Get(fm, "total") ELSE Undef,
     isbn10 |-> extractIsbn(fm).isbn10,
     isbn13 |-> extractIsbn(fm).isbn13,
     coverUrl |-> valueOf(fm, "cover"),
     status |-> valueOr(fm, "status", Str(<<"unread">>)),
     readPage |-> calculateReadPage(fm),
     readStarted |-> valueOf(fm, "read_started"),
     readFinished |-> valueOf(fm, "read_finished"),
     created |-> createdOf(fm, now),
     updated |-> valueOr(fm, "updated", Str(now))]

\* `${book.isbn10 || ''} ${book.isbn13 || ''}`.trim()
isbnField(b) ==
    Trim((IF b.isbn10.some THEN b.isbn10.s ELSE <<>>) \o <<" ">>
         \o (IF b.isbn13.some THEN b.isbn13.s ELSE <<>>))

\* the entries both bookToFrontmatter functions start from, with the two
\* reading dates as given
bookEntries(b, readStarted, readFinished) ==
    <<entry("title", b.title), entry("subtitle", b.subtitle), entry("author", b.author),
      entry("category", b.category), entry("publisher", b.publisher),
      entry("publish", b.publishDate), entry("cover", b.coverUrl),
      entry("status", b.status), entry("created", b.created), entry("updated", b.updated),
      entry("read_started", readStarted), entry("read_finished", readFinished),
      entry("read_page", Num(b.readPage))>>

\* totalPages !== undefined && totalPages !== null && !isNaN(totalPages)
hasTotal(b) == b.totalPages.t \in {"num", "inf"}

isbnEntries(b) == IF isbnField(b) # <<>> THEN <<entry("isbn", Str(isbnField(b)))>> ELSE <<>>

\* FrontmatterProcessor.bookToFrontmatter
bookToFrontmatter(b) ==
    bookEntries(b, b.readStarted, b.readFinished)
    \o (IF hasTotal(b) THEN <<entry("total", b.totalPages)>> ELSE <<>>)
    \o isbnEntries(b)

\* book.readStarted || ''
orEmpty(v) ==
    IF v.t \in {"undef", "null", "nan"} \/ (v.t = "num" /\ v.n = 0) \/ (v.t = "bool" /\ v.n = 0)
    THEN Str(<<>>) ELSE v

\* FrontmatterConverter.bookToFrontmatter: total is 0 without a valid number
converterBookToFrontmatter(b) ==
    bookEntries(b, orEmpty(b.readStarted), orEmpty(b.readFinished))
    \o <<entry("total", IF hasTotal(b) THEN b.totalPages ELSE Num(0))>>
    \o isbnEntries(b)

RECURSIVE mergeBook(_, _)
\* { ...existingBook, ...updates }: updates is a sequence of <<field, value>>
mergeBook(b, updates) ==
    IF Len(updates) = 0 THEN b
    ELSE mergeBook([b EXCEPT ![updates[1][1]] = updates[1][2]], Tail(updates))

\* FileManagerUtils.updateBookNote at clock second t
updateBookNote(text, updates, t) ==
    LET x == extractFrontmatter(text)
        existingBook == frontmatterToBook(x.frontmatter, timestampAt(t))
        updatedBook == mergeBook(existingBook, updates)
        updatedFrontmatter == Set(bookToFrontmatter(updatedBook), "updated", Str(timestampAt(t)))
    IN  joinDocument(updatedFrontmatter, x.body)

\* a header the YAML parser rejects: a sequence item among the top-level keys
yamlReadable(header) ==
    \A i \in 1..Len(header) : ~(header[i].k = "kv" /\ header[i].ind = 0 /\ header[i].key = "- date")

\* a scalar as stringify writes it: a string in double quotes
\* (defaultStringType QUOTE_DOUBLE), a number or a boolean as it is
yamlScalar(v) ==
    IF IsQuoted(v) THEN <<DQ>> \o Unquote(v) \o <<DQ>>
    ELSE IF AllDigits(v) \/ v \in {<<"true">>, <<"false">>} THEN v
    ELSE <<DQ>> \o v \o <<DQ>>

\* a line below a key, as it is written again
nestedLine(l) ==
    IF l.k = "kv" /\ l.v # <<>> THEN KV(l.ind, l.key, yamlScalar(l.v)) ELSE l

\* the last line of the block of the key at line i
blockEnd(header, i) ==
    Min({j \in (i + 1)..Len(header) : header[j].ind = 0} \cup {Len(header) + 1}) - 1

\* the lines FrontmatterCreator.create writes for what FrontmatterParser.parse
\* made of the key at line i: reading_history is left out, a key without
\* value (null) is left out, an empty string is kept for title and status
\* only, an empty list is left out, reading_history_summary is always a
\* list, a list is written as a block sequence
refreshKey(header, i, now) ==
    LET l == header[i]
        e == blockEnd(header, i)
        below == [j \in 1..(e - i) |-> nestedLine(header[i + j])]
        items == parseArrayItems(l.v)
    IN  IF l.k # "kv" \/ l.key = "reading_history" THEN <<>>
        ELSE IF l.key = "updated" THEN <<KV(0, "updated", <<DQ>> \o now \o <<DQ>>)>>
        ELSE IF l.key = "reading_history_summary"
        THEN IF l.v = <<>> /\ e > i /\ \E j \in 1..(e - i) : below[j].k = "kv"
             THEN <<l>> \o below
             ELSE <<KV(0, l.key, <<"[", "]">>)>>
        ELSE IF l.v = <<>> THEN (IF e > i THEN <<l>> \o below ELSE <<>>)
        ELSE IF IsQuoted(l.v) /\ Unquote(l.v) = <<>>
        THEN (IF l.key \in {"title", "status"} THEN <<KV(0, l.key, <<DQ, DQ>>)>> ELSE <<>>)
        ELSE IF StartsWith(l.v, "[") /\ EndsWith(l.v, "]")
        THEN IF Len(items) = 0 THEN <<>>
             ELSE <<KV(0, l.key, <<>>)>>
                  \o [j \in 1..Len(items) |-> Line("item", 2, "", yamlScalar(items[j].s))]
        ELSE <<KV(0, l.key, yamlScalar(l.v))>>

RECURSIVE refreshLines(_, _, _)
\* the header from the key at line i on
refreshLines(header, i, now) ==
    IF i > Len(header) THEN <<>>
    ELSE refreshKey(header, i, now) \o refreshLines(header, blockEnd(header, i) + 1, now)

\* the modify handler of registerAutoUpdateTimestamp at clock second t
refreshTimestamp(text, t) ==
    LET m == matchFrontmatter(text)
        header == SubSeq(text, m.from, m.to)
        titled == \E i \in 1..Len(header) :
                     /\ header[i].k = "kv" /\ header[i].ind = 0 /\ header[i].key = "title"
                     /\ Unquote(header[i].v) # <<>>
        stamped == \E i \in 1..Len(header) :
                      header[i].k = "kv" /\ header[i].ind = 0 /\ header[i].key = "updated"
    IN  IF ~m.ok \/ ~yamlReadable(header) \/ ~titled THEN text
        ELSE <<Delim>> \o refreshLines(header, 1, timestampAt(t))
             \o (IF stamped THEN <<>>
                 ELSE <<KV(0, "updated", <<DQ>> \o timestampAt(t) \o <<DQ>>)>>)
             \o <<Delim>> \o SubSeq(text, m.body, Len(text))

ValidStatuses == {Str(<<"unread">>), Str(<<"reading">>), Str(<<"finished">>)}

\* ValidationUtils.validateAndFixBook
validateAndFixBook(b) ==
    LET page == IF b.readPage < 0 THEN 0 ELSE b.readPage
        total == IF b.totalPages.t = "num" /\ b.totalPages.n < 0 THEN Undef ELSE b.totalPages
    IN  [b EXCEPT !.readPage = IF total.t = "num" /\ page > total.n THEN total.n ELSE page,
                  !.totalPages = total,
                  !.title = IF b.title.t = "str" /\ Trim(b.title.s) = <<>>
                            THEN Str(<<"Unknown Title">>) ELSE b.title,
                  !.status = IF b.status \in ValidStatuses THEN b.status ELSE Str(<<"unread">>)]

(***************************************************************************)
(* The book note and its progress updates                                  *)
(***************************************************************************)
Pages == {0, 50, 120}

StartPages == {None, Some(0), Some(50)}

Notes == {<<>>, <<"n1">>}

\* the header TemplateProcessor.getDefaultTemplate gives a new note, for a
\* book of `total` pages (None: unknown) read up to `page`
templateHeader(total, page) ==
    <<Delim,
      KV(0, "title", <<DQ, "T", DQ>>),
      KV(0, "author", <<"[", DQ, "A", DQ, "]">>),
      KV(0, "total", IF total.some THEN Digits(total.n) ELSE <<>>),
      KV(0, "status", <<"unread">>),
      KV(0, "created", timestampAt(0)),
      KV(0, "updated", timestampAt(0)),
      KV(0, "read_started", timestampAt(0)),
      KV(0, "read_finished", timestampAt(0)),
      KV(0, "read_page", Digits(page)),
      Delim>>

\* the template's body, and bodies the reader has written notes into
Bodies ==
    { <<Blank, H1("T"), Blank>>,
      <<Blank, H1("T"), Blank, TextLine("p"), Blank>>,
      <<Blank, H1("T"), Blank, TextLine("p"), Blank, H2("Notes"), Blank, TextLine("q"), Blank>> }

InitialDocuments ==
    { templateHeader(total, page) \o body :
        total \in {None, Some(120)}, page \in {0, 30}, body \in Bodies }

NoOp ==
    [op |-> "none", before |-> <<>>, read |-> <<>>, page |-> 0, startPage |-> None,
     notes |-> <<>>]

NoLibrary ==
    /\ books = <<>>
    /\ stats = <<>>

\* nothing is scheduled
Quiet == sched = <<>>

Idle ==
    /\ NoLibrary
    /\ fmIn = <<>>
    /\ fmOut = <<>>
    /\ book = <<>>

Init ==
    /\ content \in InitialDocuments
    /\ clock = 0
    /\ auto \in BOOLEAN
    /\ log = <<>>
    /\ last = NoOp
    /\ stage = "note"
    /\ Idle
    /\ Quiet

\* FileManagerUtils.updateReadingProgress: read, update, modify; the end
\* page, the start page and the notes are drawn from P, S and N
UpdateProgressWith(P, S, N) ==
    /\ stage = "note"
    /\ clock < MaxUpdates
    /\ \E page \in P, startPage \in S, notes \in N :
        LET u == progressUpdate(content, page, totalPagesOf(content), notes, auto,
                                startPage, clock + 1)
        IN  /\ content' = u.content
            /\ log' = Append(log, u.record)
            /\ last' = [op |-> "progress", before |-> content, page |-> page,
                        startPage |-> startPage, notes |-> notes]
    /\ clock' = clock + 1
    /\ UNCHANGED <<sched, books, stats, auto, fmIn, fmOut, book, stage>>

UpdateProgress == UpdateProgressWith(Pages, StartPages, Notes)

Next == UpdateProgress

Spec == Init /\ [][Next]_vars

(***************************************************************************)
(* Progress updates that give no start page, on a note with no progress    *)
(***************************************************************************)
\* a new note: no history, read_page 0
InitForward ==
    /\ Init
    /\ numberOf(parseFrontmatter(content), "read_page") = Some(0)

\* the end pages that are not before the end page of the update before
PagesOnward == {p \in Pages : log = <<>> \/ p >= log[Len(log)].endPage}

\* updateReadingProgress(file, endPage, undefined, notes, autoStatusChange)
UpdateForward == UpdateProgressWith(PagesOnward, {None}, Notes)

SpecForward == InitForward /\ [][UpdateForward]_vars

(***************************************************************************)
(* The book note under all the operations that rewrite its header          *)
(***************************************************************************)
BookUpdates ==
    { <<>>, <<<<"status", Str(<<"finished">>)>>>>, <<<<"readPage", 70>>>> }

\* a progress update with the end page alone
RecordProgress == UpdateProgressWith({50, 120}, {None}, {<<>>})

\* FileManagerUtils.updateBookNote: read, merge, modify
UpdateBookNote ==
    /\ stage = "note"
    /\ clock < MaxUpdates
    /\ \E updates \in BookUpdates :
        /\ content' = updateBookNote(content, updates, clock + 1)
        /\ last' = [NoOp EXCEPT !.op = "note", !.before = content]
    /\ clock' = clock + 1
    /\ UNCHANGED <<sched, books, stats, auto, log, fmIn, fmOut, book, stage>>

\* the modify handler: the updated timestamp is refreshed
RefreshTimestamp ==
    /\ stage = "note"
    /\ clock < MaxUpdates
    /\ content' = refreshTimestamp(content, clock + 1)
    /\ last' = [NoOp EXCEPT !.op = "refresh", !.before = content]
    /\ clock' = clock + 1
    /\ UNCHANGED <<sched, books, stats, auto, log, fmIn, fmOut, book, stage>>

NextNote == RecordProgress \/ UpdateBookNote \/ RefreshTimestamp

SpecNote == Init /\ [][NextNote]_vars

(***************************************************************************)
(* Header updates and progress updates on notes of any shape               *)
(***************************************************************************)
\* a new note; a note whose header is empty; a note that ends with the
\* closing delimiter, no newline after it; a note without header
HeaderDocuments ==
    { templateHeader(Some(120), 0) \o <<Blank, H1("T"), Blank>>,
      <<Delim, Delim, H1("T")>>,
      <<Delim, KV(0, "title", <<DQ, "T", DQ>>), Delim>>,
      <<H1("T"), Blank>> }

\* the updates object of updateFrontmatter
HeaderUpdates ==
    { <<>>,
      <<[key |-> "status", val |-> Str(<<"reading">>)]>>,
      <<[key |-> "rating", val |-> Num(4)]>> }

InitHeader ==
    /\ content \in HeaderDocuments
    /\ clock = 0
    /\ auto \in BOOLEAN
    /\ log = <<>>
    /\ last = NoOp
    /\ stage = "note"
    /\ Idle
    /\ Quiet

\* FrontmatterProcessor.updateFrontmatter on the note; fmIn keeps the updates
UpdateFrontmatter ==
    /\ stage = "note"
    /\ clock < MaxUpdates
    /\ \E ups \in HeaderUpdates :
        /\ content' = updateFrontmatter(content, ups)
        /\ fmIn' = ups
        /\ last' = [NoOp EXCEPT !.op = "header", !.before = content]
    /\ clock' = clock + 1
    /\ UNCHANGED <<sched, books, stats, auto, log, fmOut, book, stage>>

NextHeader == UpdateFrontmatter \/ RecordProgress

SpecHeader == InitHeader /\ [][NextHeader]_vars

(***************************************************************************)
(* The modify listeners of the timestamp refresh                           *)
(***************************************************************************)
MaxTicks == 1

MaxToggles == 2

\* the handlers that can be in flight at once
MaxRunning == 2 ^ (MaxTicks + 3)

\* the header of a new note of a book without subtitle and category
bareTemplateHeader ==
    <<Delim,
      KV(0, "title", <<DQ, "T", DQ>>),
      KV(0, "subtitle", <<DQ, DQ>>),
      KV(0, "author", <<"[", DQ, "A", DQ, "]">>),
      KV(0, "category", <<"[", "]">>),
      KV(0, "total", <<"1", "2", "0">>),
      KV(0, "status", <<"unread">>),
      KV(0, "created", timestampAt(0)),
      KV(0, "updated", timestampAt(0)),
      KV(0, "read_page", <<"0">>),
      Delim>>

\* notes the listener meets: new notes, and a note after a progress update
RefreshDocuments ==
    LET body == <<Blank, H1("T"), Blank>>
        note == templateHeader(Some(120), 0) \o body
    IN  { note,
          bareTemplateHeader \o body,
          updateReadingProgress(note, 50, Some(120), <<>>, TRUE, None, 0) }

\* a handler that awaits vault.read, and one that has read `text`
Reading == [pc |-> "read", text |-> <<>>]

Writing(text) == [pc |-> "write", text |-> text]

One(h) == SetToBag({h})

\* vault.on('modify') calls every registered listener; a listener returns
\* at once when settings.autoUpdateTimestamp is off
dispatch(running, enabled, listeners) ==
    IF enabled /\ listeners > 0
    THEN running (+) [h \in {Reading} |-> listeners]
    ELSE running

\* onload registers the listener when the setting is on
InitRefresh ==
    /\ content \in RefreshDocuments
    /\ clock = 0
    /\ auto = TRUE
    /\ log = <<>>
    /\ last = NoOp
    /\ stage = "note"
    /\ Idle
    /\ \E enabled \in BOOLEAN :
        sched = [enabled |-> enabled, listeners |-> IF enabled THEN 1 ELSE 0,
                 running |-> EmptyBag, toggles |-> 0, edits |-> 0]

\* the toggle of the settings tab: the setting is stored and, when it was
\* switched on, registerAutoUpdateTimestamp is called
ToggleAutoUpdate ==
    /\ sched.toggles < MaxToggles
    /\ sched' = [sched EXCEPT !.enabled = ~sched.enabled,
                              !.listeners = IF sched.enabled THEN @ ELSE @ + 1,
                              !.toggles = @ + 1]
    /\ UNCHANGED <<content, clock, auto, log, last, fmIn, fmOut, book, stage, books, stats>>

\* the user saves the note with a line more, once
UserModify ==
    /\ sched.edits = 0
    /\ content' = content \o <<TextLine("p")>>
    /\ last' = [NoOp EXCEPT !.op = "edit", !.before = content]
    /\ sched' = [sched EXCEPT !.edits = @ + 1,
                              !.running = dispatch(@, sched.enabled, sched.listeners)]
    /\ UNCHANGED <<clock, auto, log, fmIn, fmOut, book, stage, books, stats>>

\* a second passes
Tick ==
    /\ clock < MaxTicks
    /\ clock' = clock + 1
    /\ UNCHANGED <<sched, content, auto, log, last, fmIn, fmOut, book, stage, books, stats>>

\* await this.app.vault.read(file)
HandlerRead ==
    /\ BagIn(Reading, sched.running)
    /\ sched' = [sched EXCEPT !.running = (@ (-) One(Reading)) (+) One(Writing(content))]
    /\ UNCHANGED <<content, clock, auto, log, last, fmIn, fmOut, book, stage, books, stats>>

\* a variant that writes whatever the new text is
alwaysChanged(text, newContent) == TRUE

\* content !== newContent
changed(text, newContent) == text # newContent

\* the rest of the handler when the new text differs from the text read:
\* vault.modify, which raises the next modify event
HandlerWrite ==
    \E h \in BagToSet(sched.running) :
        /\ h.pc = "write"
        /\ changed(h.text, refreshTimestamp(h.text, clock))
        /\ BagCardinality(sched.running) - 1 + sched.listeners <= MaxRunning
        /\ content' = refreshTimestamp(h.text, clock)
        /\ last' = [NoOp EXCEPT !.op = "refresh", !.before = content, !.read = h.text]
        /\ sched' = [sched EXCEPT
                        !.running = dispatch(@ (-) One(h), sched.enabled, sched.listeners)]
        /\ UNCHANGED <<clock, auto, log, fmIn, fmOut, book, stage, books, stats>>

\* the rest of the handler when nothing changed, or the note has no title
HandlerReturn ==
    \E h \in BagToSet(sched.running) :
        /\ h.pc = "write"
        /\ ~changed(h.text, refreshTimestamp(h.text, clock))
        /\ sched' = [sched EXCEPT !.running = @ (-) One(h)]
        /\ UNCHANGED <<content, last, clock, auto, log, fmIn, fmOut, book, stage, books, stats>>

NextRefresh ==
    ToggleAutoUpdate \/ UserModify \/ Tick \/ HandlerRead \/ HandlerWrite \/ HandlerReturn

SpecRefresh == InitRefresh /\ [][NextRefresh]_vars

\* a handler that has read the note can complete
CanComplete ==
    \E h \in BagToSet(sched.running) :
        /\ h.pc = "write"
        /\ changed(h.text, refreshTimestamp(h.text, clock)) =>
               BagCardinality(sched.running) - 1 + sched.listeners <= MaxRunning

\* a handler that can take a step takes it: weak fairness of the read and
\* of the completion, the latter written out with its enabling condition
SpecRefreshFair ==
    /\ SpecRefresh
    /\ WF_vars(HandlerRead)
    /\ ([]<>(~CanComplete) \/ []<><<HandlerWrite \/ HandlerReturn>>_vars)

(***************************************************************************)
(* Progress updates from the modal, and the refresh, on one note           *)
(***************************************************************************)
\* the activations of the Update button
Clicks == {1, 2}

NotStarted == [pc |-> "idle", text |-> <<>>, page |-> 0]

\* the modal is open on a new note of a book of 120 pages; the refresh
\* listener is registered
InitRace ==
    /\ content = templateHeader(Some(120), 0) \o <<Blank, H1("T"), Blank>>
    /\ clock = 0
    /\ auto = TRUE
    /\ log = <<>>
    /\ last = NoOp
    /\ stage = "note"
    /\ Idle
    /\ sched = [enabled |-> TRUE, listeners |-> 1, running |-> EmptyBag,
                toggles |-> 0, edits |-> 0, procs |-> [c \in Clicks |-> NotStarted]]

\* ProgressUpdateModal.updateProgress up to the await of vault.read in
\* FileManagerUtils.updateReadingProgress; the start page is 0
ClickUpdate ==
    /\ \E c \in Clicks, page \in {50, 120} :
        /\ sched.procs[c].pc = "idle"
        /\ sched' = [sched EXCEPT !.procs[c] = [pc |-> "read", text |-> <<>>, page |-> page]]
    /\ UNCHANGED <<content, clock, auto, log, last, fmIn, fmOut, book, stage, books, stats>>

\* await this.app.vault.read(file)
ProgressRead ==
    /\ \E c \in Clicks :
        /\ sched.procs[c].pc = "read"
        /\ sched' = [sched EXCEPT !.procs[c].pc = "write", !.procs[c].text = content]
    /\ UNCHANGED <<content, clock, auto, log, last, fmIn, fmOut, book, stage, books, stats>>

\* the new text from the text read, and vault.modify, which raises the
\* modify event
ProgressWrite ==
    /\ \E c \in Clicks :
        LET p == sched.procs[c]
            u == progressUpdate(p.text, p.page, totalPagesOf(p.text), <<>>, auto, Some(0), clock)
        IN  /\ p.pc = "write"
            /\ BagCardinality(sched.running) + sched.listeners <= MaxRunning
            /\ content' = u.content
            /\ log' = Append(log, u.record)
            /\ last' = [NoOp EXCEPT !.op = "progress", !.before = content, !.read = p.text,
                                    !.page = p.page, !.startPage = Some(0)]
            /\ sched' = [sched EXCEPT
                            !.procs[c].pc = "done",
                            !.running = dispatch(@, sched.enabled, sched.listeners)]
    /\ UNCHANGED <<clock, auto, fmIn, fmOut, book, stage, books, stats>>

NextRace ==
    \/ ClickUpdate \/ ProgressRead \/ ProgressWrite
    \/ Tick \/ HandlerRead \/ HandlerWrite \/ HandlerReturn

SpecRace == InitRace /\ [][NextRace]_vars

(***************************************************************************)
(* The debounce of a view's data updates                                   *)
(***************************************************************************)
\* the delay of the debounce timer, in milliseconds
DebounceMs == 500

\* the longest time that passes in one step, and the end of the run
StepMs == 100

MaxMs == 1200

MaxNotifications == 3

\* the view in the main window or in a pop-out window, with no timer set
InitDebounce ==
    /\ content = <<>>
    /\ clock = 0
    /\ auto = TRUE
    /\ log = <<>>
    /\ last = NoOp
    /\ Idle
    /\ stage = "view"
    /\ \E w \in {"main", "popout"} :
        sched = [now |-> 0, window |-> w, connected |-> TRUE, unloaded |-> FALSE,
                 timer |-> 0, nextId |-> 1, pending |-> {},
                 notified |-> <<>>, renders |-> <<>>]

\* the global clearTimeout(id): the timers of the main window are its
\* own map, a timer of another window is not in it
clearTimeout(pending, id) == {t \in pending : ~(t.id = id /\ t.win = "main")}

\* BasesViewBase.onDataUpdated
OnDataUpdated ==
    /\ ~sched.unloaded
    /\ Len(sched.notified) < MaxNotifications
    /\ sched' =
        IF ~sched.connected
        THEN [sched EXCEPT !.notified = Append(@, sched.now)]
        ELSE [sched EXCEPT
                 !.notified = Append(@, sched.now),
                 !.pending = (IF sched.timer # 0 THEN clearTimeout(@, sched.timer) ELSE @)
                             \cup {[id |-> sched.nextId, due |-> sched.now + DebounceMs,
                                    win |-> sched.window]},
                 !.timer = sched.nextId,
                 !.nextId = @ + 1]
    /\ UNCHANGED <<content, clock, auto, log, last, fmIn, fmOut, book, stage, books, stats>>

\* the callback of a timer that is due: the field is cleared, render starts
TimerFires ==
    /\ \E t \in sched.pending :
        /\ t.due = sched.now
        /\ sched' = [sched EXCEPT
                        !.pending = @ \ {t},
                        !.timer = 0,
                        !.renders = Append(@, [at |-> sched.now, unloaded |-> sched.unloaded])]
    /\ UNCHANGED <<content, clock, auto, log, last, fmIn, fmOut, book, stage, books, stats>>

\* BasesViewBase.onunload; the view's element leaves the document
OnUnload ==
    /\ ~sched.unloaded
    /\ sched' = [sched EXCEPT
                    !.unloaded = TRUE,
                    !.connected = FALSE,
                    !.pending = IF sched.timer # 0 THEN clearTimeout(@, sched.timer) ELSE @]
    /\ UNCHANGED <<content, clock, auto, log, last, fmIn, fmOut, book, stage, books, stats>>

\* the view's element is taken out of the document or put back
Reattach ==
    /\ ~sched.unloaded
    /\ sched.pending = {}
    /\ sched' = [sched EXCEPT !.connected = ~@]
    /\ UNCHANGED <<content, clock, auto, log, last, fmIn, fmOut, book, stage, books, stats>>

\* time passes, up to the next timer that is due
Elapse ==
    /\ sched.now < MaxMs
    /\ \A t \in sched.pending : t.due > sched.now
    /\ sched' = [sched EXCEPT
                    !.now = Min({sched.now + StepMs} \cup {t.due : t \in sched.pending})]
    /\ UNCHANGED <<content, clock, auto, log, last, fmIn, fmOut, book, stage, books, stats>>

NextDebounce == OnDataUpdated \/ TimerFires \/ OnUnload \/ Reattach \/ Elapse

SpecDebounce == InitDebounce /\ [][NextDebounce]_vars

(***************************************************************************)
(* The mapper on its own: one header mapping is decoded                    *)
(***************************************************************************)
MaxSummary == 2

SummaryPages == {0, 50, 100}

\* summary records that read p pages
summaryEntry(p) ==
    [date |-> dateAt(1), startPage |-> 0, endPage |-> p, pagesRead |-> p,
     timestamp |-> timestampAt(1)]

SeqsUpTo(S, n) == UNION {[1..k -> S] : k \in 0..n}

SummaryLists == {[i \in 1..Len(q) |-> summaryEntry(q[i])] : q \in SeqsUpTo(SummaryPages, MaxSummary)}

\* a token of n characters c
Token(c, n) == [i \in 1..n |-> c]

IsbnValues ==
    { Str(Token("1", 10)),
      Num(1234567890),
      Str(Token("1", 10) \o <<" ">> \o Token("3", 13)),
      Str(Token("1", 10) \o <<" ">> \o Token("2", 10)),
      Str(Token("3", 13) \o <<" ">> \o Token("1", 10) \o <<" ", " ">> \o Token("4", 13)) }

StatusValues ==
    { Str(<<"unread">>), Str(<<"reading">>), Str(<<"finished">>), Str(<<"abandoned">>),
      Str(<<>>), Num(5) }

\* a summary that holds a null or a string beside its records, or is no list
OddSummaries ==
    { Arr(<<Null>>, <<>>), Arr(<<Null>>, <<summaryEntry(50)>>),
      Arr(<<Str(<<"x">>)>>, <<summaryEntry(50)>>), Str(<<"x">>) }

Optional(key, values) == {<<>>} \cup {<<entry(key, v)>> : v \in values}

DecodeInputs ==
    { counter \o summary \o status \o isbn \o total :
        counter \in Optional("read_page", {Num(0), Num(100), Num(200), Str(<<"x">>)}),
        summary \in Optional("reading_history_summary",
                             {Arr(<<>>, l) : l \in SummaryLists} \cup OddSummaries),
        status \in Optional("status", StatusValues),
        isbn \in Optional("isbn", IsbnValues),
        total \in Optional("total", {Num(120)}) }

NoNote ==
    /\ Quiet
    /\ content = <<>>
    /\ clock = 0
    /\ auto = TRUE
    /\ log = <<>>
    /\ last = NoOp

InitDecode ==
    /\ NoNote
    /\ NoLibrary
    /\ fmIn \in DecodeInputs
    /\ fmOut = <<>>
    /\ book = <<>>
    /\ stage = "decode"

\* BookFileReader.read / getBookFromFile: the header mapping becomes a book
Decode ==
    /\ stage = "decode"
    /\ IF decodeThrows(fmIn)
       THEN book' = book /\ stage' = "threw"
       ELSE book' = frontmatterToBook(fmIn, timestampAt(clock)) /\ stage' = "decoded"
    /\ UNCHANGED <<sched, books, stats, content, clock, auto, log, last, fmIn, fmOut>>

\* the validate step of BookFileReader.read / getBookFromFile
Validate ==
    /\ stage = "decoded"
    /\ book' = validateAndFixBook(book)
    /\ stage' = "validated"
    /\ UNCHANGED <<sched, books, stats, content, clock, auto, log, last, fmIn, fmOut>>

NextDecode == Decode \/ Validate

SpecDecode == InitDecode /\ [][NextDecode]_vars

(***************************************************************************)
(* The mapper on its own: one book is encoded                              *)
(***************************************************************************)
TotalPagesValues == {Undef, Null, Num(0), Num(120), Num(0 - 5), NaN, Infinity}

EncodeInputs ==
    { [frontmatterToBook(<<entry("title", Str(<<"T">>))>>, timestampAt(0))
          EXCEPT !.totalPages = total, !.readPage = page, !.status = status,
                 !.isbn10 = isbn10, !.isbn13 = isbn13] :
        total \in TotalPagesValues,
        page \in {0, 50},
        status \in ValidStatuses,
        isbn10 \in {NoStr, SomeStr(Token("1", 10))},
        isbn13 \in {NoStr, SomeStr(Token("3", 13))} }

InitEncode ==
    /\ NoNote
    /\ NoLibrary
    /\ fmIn = <<>>
    /\ fmOut = <<>>
    /\ book \in EncodeInputs
    /\ stage = "book"

\* FrontmatterProcessor.bookToFrontmatter of the book
EncodeBook ==
    /\ stage = "book"
    /\ fmOut' = bookToFrontmatter(book)
    /\ stage' = "encoded"
    /\ UNCHANGED <<sched, books, stats, content, clock, auto, log, last, fmIn, book>>

\* FrontmatterConverter.bookToFrontmatter of the book
ConvertBook ==
    /\ stage = "book"
    /\ fmOut' = converterBookToFrontmatter(book)
    /\ stage' = "converted"
    /\ UNCHANGED <<sched, books, stats, content, clock, auto, log, last, fmIn, book>>

NextEncode == EncodeBook \/ ConvertBook

SpecEncode == InitEncode /\ [][NextEncode]_vars

(***************************************************************************)
(* The codec on its own: a mapping is written into a note and read back    *)
(***************************************************************************)
ScalarValues ==
    { Str(<<"a">>), Str(<<>>), Str(<<"1", "2">>), Str(<<"true">>), Str(<<"a", DQ, "b">>),
      Num(5), Bool(TRUE) }

ListValues ==
    { Arr(<<>>, <<>>), Arr(<<Str(<<"A">>)>>, <<>>), Arr(<<Str(<<"A">>), Str(<<"B">>)>>, <<>>) }

CodecInputs ==
    { <<entry("title", t), entry("author", a)>> \o summary :
        t \in ScalarValues, a \in ListValues,
        summary \in {<<>>} \cup {<<entry("reading_history_summary", Arr(<<>>, l))>> :
                                    l \in SummaryLists} }

InitCodec ==
    /\ NoNote
    /\ NoLibrary
    /\ fmIn \in CodecInputs
    /\ fmOut = <<>>
    /\ book = <<>>
    /\ stage = "mapping"

\* updateFrontmatter / updateBookNote: `${createFrontmatter(data)}\n${body}`
Serialize ==
    /\ stage = "mapping"
    /\ content' = joinDocument(fmIn, <<H1("T"), Blank>>)
    /\ stage' = "text"
    /\ UNCHANGED <<sched, books, stats, clock, auto, log, last, fmIn, fmOut, book>>

\* extractFrontmatter of the text that was written
Parse ==
    /\ stage = "text"
    /\ fmOut' = extractFrontmatter(content).frontmatter
    /\ stage' = "parsed"
    /\ UNCHANGED <<sched, books, stats, content, clock, auto, log, last, fmIn, book>>

NextCodec == Serialize \/ Parse

SpecCodec == InitCodec /\ [][NextCodec]_vars

(***************************************************************************)
(* Statistics view: calculateStatistics over the library                   *)
(*                                                                         *)
(* A document of the library is a record: decodes (BookFileReader.read     *)
(* returns a book), readable (vault.read of the file succeeds), status,    *)
(* totalPages, readPage, finishYear and finishMonth of read_finished (year *)
(* 0: no read_finished), started ("none", "valid", or "invalid" for a      *)
(* read_started that is no date), startLocalDay (the calendar day of       *)
(* read_started as written), startDay (the day toISOString gives for it,   *)
(* which is the UTC day) and dates (the days of the summary records).      *)
(***************************************************************************)
\* the sum of a sequence of numbers
sumOf(q) ==
    LET f[i \in 0..Len(q)] == IF i = 0 THEN 0 ELSE f[i - 1] + q[i]
    IN  f[Len(q)]

\* Math.round(a / b) for b > 0
roundDiv(a, b) == (2 * a + b) \div (2 * b)

\* the books the view keeps: a document that fails to decode is skipped
extractBooksFromBasesData(lib) == SelectSeq(lib, LAMBDA d : d.decodes)

\* new Date(book.readStarted).toISOString().split('T')[0], when it is a date
startDays(b) == IF b.started = "valid" THEN {b.startDay} ELSE {}

\* the record.date of the summary the file holds; none when the read fails
summaryDays(b) == IF b.readable THEN {b.dates[i] : i \in 1..Len(b.dates)} ELSE {}

\* lines 810-835: the days of one finished book
bookReadingDays(b) == Cardinality(startDays(b) \cup summaryDays(b))

\* toISOString of an invalid date throws a RangeError (lines 813 and 847
\* are outside the try blocks)
statisticsThrows(bs) == \E i \in 1..Len(bs) : bs[i].started = "invalid"

\* status === 'finished' && readFinished
finishedDated(b) == b.status = "finished" /\ b.finishYear # 0

\* lines 788-840: the buckets of the books whose key is keys[i] (0: none)
accumulate(bs, keys) ==
    [k \in {keys[i] : i \in 1..Len(bs)} \ {0} |->
        [count |-> Cardinality({i \in 1..Len(bs) : keys[i] = k}),
         pages |-> sumOf([i \in 1..Len(bs) |-> IF keys[i] = k THEN bs[i].totalPages ELSE 0]),
         readingDays |-> sumOf([i \in 1..Len(bs) |->
                                   IF keys[i] = k THEN bookReadingDays(bs[i]) ELSE 0]),
         averageTimeToFinish |-> sumOf([i \in 1..Len(bs) |->
                                   IF keys[i] = k THEN bookReadingDays(bs[i]) ELSE 0]),
         hasChange |-> FALSE, change |-> 0, changePercent |-> 0]]

\* a variant that truncates the percentage
changePercentTruncated(change, current, previous) ==
    IF previous.count > 0 THEN (100 * change) \div previous.count
    ELSE IF current.count > 0 THEN 100 ELSE 0

\* lines 895-897 and 922-924
changePercentOf(change, current, previous) ==
    IF previous.count > 0 THEN roundDiv(100 * change, previous.count)
    ELSE IF current.count > 0 THEN 100 ELSE 0

\* lines 875-927: per bucket in sorted key order, the rounded average and
\* the change from the bucket before it
withTrends(m) ==
    [k \in DOMAIN m |->
        LET current == m[k]
            P == {j \in DOMAIN m : j < k}
            previous == m[CHOOSE j \in P : \A i \in P : i <= j]
            average == IF current.count > 0
                       THEN roundDiv(current.averageTimeToFinish, current.count)
                       ELSE current.averageTimeToFinish
        IN  IF P = {}
            THEN [current EXCEPT !.averageTimeToFinish = average]
            ELSE [current EXCEPT !.averageTimeToFinish = average,
                                 !.hasChange = TRUE,
                                 !.change = current.count - previous.count,
                                 !.changePercent = changePercentOf(current.count - previous.count,
                                                                   current, previous)]]

\* lines 929-975: the rounded mean of the days of the finished books that
\* could be read and have a day
averageTimeToFinish(bs) ==
    LET days == [i \in 1..Len(bs) |->
                    IF bs[i].status = "finished" /\ bs[i].readable
                    THEN Cardinality(startDays(bs[i]) \cup summaryDays(bs[i]))
                    ELSE 0]
        count == Cardinality({i \in 1..Len(bs) : days[i] > 0})
    IN  IF count > 0 THEN roundDiv(sumOf(days), count) ELSE 0

\* lines 842-873: the days of the books that have a read_started
readingDaysSet(bs) ==
    UNION {startDays(bs[i]) \cup summaryDays(bs[i]) :
              i \in {j \in 1..Len(bs) : bs[j].started # "none"}}

countStatus(bs, status) == Cardinality({i \in 1..Len(bs) : bs[i].status = status})

\* calculateStatistics over this.books; ok is FALSE when it throws
calculateStatistics(bs) ==
    IF statisticsThrows(bs)
    THEN [ok |-> FALSE, totalBooks |-> 0, reading |-> 0, unread |-> 0, finished |-> 0,
          totalPages |-> 0, readPages |-> 0, totalReadingDays |-> 0,
          averageTimeToFinish |-> 0, yearlyStats |-> <<>>, monthlyStats |-> <<>>]
    ELSE [ok |-> TRUE,
          totalBooks |-> Len(bs),
          reading |-> countStatus(bs, "reading"),
          unread |-> countStatus(bs, "unread"),
          finished |-> countStatus(bs, "finished"),
          totalPages |-> sumOf([i \in 1..Len(bs) |-> bs[i].totalPages]),
          readPages |-> sumOf([i \in 1..Len(bs) |-> bs[i].readPage]),
          totalReadingDays |-> Cardinality(readingDaysSet(bs)),
          averageTimeToFinish |-> averageTimeToFinish(bs),
          yearlyStats |-> withTrends(accumulate(bs,
              [i \in 1..Len(bs) |-> IF finishedDated(bs[i]) THEN bs[i].finishYear ELSE 0])),
          monthlyStats |-> withTrends(accumulate(bs,
              [i \in 1..Len(bs) |-> IF finishedDated(bs[i])
                                    THEN 100 * bs[i].finishYear + bs[i].finishMonth ELSE 0]))]

(***************************************************************************)
(* The statistics view renders a library                                   *)
(***************************************************************************)
MaxBooks == 2

Doc(status, finishYear, started, startLocalDay, startDay, dates, readable, decodes) ==
    [decodes |-> decodes, readable |-> readable, status |-> status,
     totalPages |-> 100, readPage |-> 50,
     finishYear |-> finishYear, finishMonth |-> IF finishYear = 0 THEN 0 ELSE 1,
     started |-> started, startLocalDay |-> startLocalDay, startDay |-> startDay,
     dates |-> dates]

\* status and year of read_finished
Shelves == {<<"unread", 0>>, <<"reading", 0>>, <<"finished", 2024>>, <<"finished", 2025>>}

Documents ==
    \* documents that decode and can be read, started on day 1 or not at all
    { Doc(sh[1], sh[2], st, IF st = "valid" THEN 1 ELSE 0, IF st = "valid" THEN 1 ELSE 0,
          dates, TRUE, TRUE) :
        sh \in Shelves, st \in {"none", "valid"}, dates \in {<<>>, <<1>>, <<1, 2>>} }
    \cup
    { \* the file cannot be read when the statistics are computed
      Doc("finished", 2025, "valid", 1, 1, <<1, 2>>, FALSE, TRUE),
      \* read_started is no date
      Doc("reading", 0, "invalid", 0, 0, <<1>>, TRUE, TRUE),
      \* the document does not decode
      Doc("reading", 0, "none", 0, 0, <<>>, TRUE, FALSE),
      \* started early on day 1 east of Greenwich: the UTC day is day 0
      Doc("finished", 2025, "valid", 1, 0, <<1>>, TRUE, TRUE) }

Libraries == SeqsUpTo(Documents, MaxBooks)

NoCodec ==
    /\ fmIn = <<>>
    /\ fmOut = <<>>
    /\ book = <<>>

InitStats ==
    /\ NoNote
    /\ NoCodec
    /\ books \in Libraries
    /\ stats = <<>>
    /\ stage = "library"

\* StatisticsBasesView.render: extract the books, compute the statistics
RenderStatistics ==
    /\ stage = "library"
    /\ stats' = calculateStatistics(extractBooksFromBasesData(books))
    /\ stage' = "rendered"
    /\ UNCHANGED <<sched, content, clock, auto, log, last, fmIn, fmOut, book, books>>

NextStats == RenderStatistics

SpecStats == InitStats /\ [][NextStats]_vars

(***************************************************************************)
(* The trend loops on their own: buckets with given counts                 *)
(***************************************************************************)
MaxCount == 5

TrendKeys == {2023, 2024, 2025}

\* a bucket that counts n finished books
bucketOf(n) ==
    [count |-> n, pages |-> 100 * n, readingDays |-> n, averageTimeToFinish |-> n,
     hasChange |-> FALSE, change |-> 0, changePercent |-> 0]

BucketMaps ==
    UNION { {[k \in K |-> bucketOf(c[k])] : c \in [K -> 1..MaxCount]} : K \in SUBSET TrendKeys }

InitTrend ==
    /\ NoNote
    /\ NoCodec
    /\ books = <<>>
    /\ stats \in BucketMaps
    /\ stage = "buckets"

\* lines 875-927 applied to the accumulated buckets
ComputeTrends ==
    /\ stage = "buckets"
    /\ stats' = withTrends(stats)
    /\ stage' = "trends"
    /\ UNCHANGED <<sched, content, clock, auto, log, last, fmIn, fmOut, book, books>>

NextTrend == ComputeTrends

SpecTrend == InitTrend /\ [][NextTrend]_vars

(***************************************************************************)
(* parseReadingHistoryFromBody over bodies with legacy entries             *)
(***************************************************************************)
MaxEntries == 2

\* the field lines of a legacy entry: a start page under one of its
\* spellings, then an end page under one, or under "Page" and "End Page"
LegacyFields ==
    { <<Label(a, <<"1", "0">>)>> \o e :
        a \in {"Start Page", "Start", "From"},
        e \in { <<Label(b, <<"5", "0">>)>> : b \in {"End Page", "End", "To", "Page"} }
              \cup { <<Label("Page", <<"4", "0">>), Label("End Page", <<"5", "0">>)>> } }

\* well-formed entries, and entries whose heading is not a date
LegacyEntries ==
    { <<H3(dateAt(1))>> \o f : f \in LegacyFields }
    \cup { <<H3(<<"someday">>), Label("Start Page", <<"1", "0">>), Label("End Page", <<"5", "0">>)>>,
           <<H3(<<"someday">>)>> }

RECURSIVE flatten(_)
flatten(q) == IF Len(q) = 0 THEN <<>> ELSE q[1] \o flatten(Tail(q))

LegacyBodies ==
    { <<Blank, H1("T"), Blank, HistoryHeader, Blank>> \o flatten(q) \o tail :
        q \in SeqsUpTo(LegacyEntries, MaxEntries), tail \in {<<>>, <<Blank>>} }

InitLegacy ==
    /\ content \in LegacyBodies
    /\ clock = 0
    /\ auto = TRUE
    /\ log = <<>>
    /\ last = NoOp
    /\ stage = "legacy"
    /\ Idle
    /\ Quiet

\* the body's history is read, as updateReadingProgress reads it
ParseHistory ==
    /\ stage = "legacy"
    /\ log' = parseReadingHistoryFromBody(content)
    /\ stage' = "parsed"
    /\ UNCHANGED <<sched, content, clock, auto, last, fmIn, fmOut, book, books, stats>>

NextLegacy == ParseHistory

SpecLegacy == InitLegacy /\ [][NextLegacy]_vars

(***************************************************************************)
(* What a note holds: the entries a reader of the text finds in it         *)
(***************************************************************************)
\* a decimal number, signed or not
ReadInt(v) ==
    IF StartsWith(v, "-") THEN 0 - ParseInt(Tail(v)) ELSE ParseInt(v)

BodyOf(text) == extractFrontmatter(text).body

\* the first line of lines[from..to] that satisfies Test, or to + 1
FirstLine(lines, from, to, Test(_)) ==
    Min({i \in from..to : Test(lines[i])} \cup {to + 1})

IsHeading(l) == l.k \in {"h1", "h2"}

IsEntryHeading(l) == l.k = "h3"

\* the value of the first "- **label:** v" line of lines[from..to]
FieldIn(lines, from, to, label) ==
    LET S == {i \in from..to : lines[i].k = "field" /\ lines[i].key = label}
    IN  IF S = {} THEN <<>> ELSE lines[Min(S)].v

NotesIn(lines, from, to) ==
    LET S == {i \in from..to : lines[i].k = "note"}
    IN  IF S = {} THEN <<>> ELSE lines[Min(S)].v

RECURSIVE EntriesIn(_, _, _)
\* the "### date" entries of lines[from..to], each with the fields that
\* follow it up to the next entry
EntriesIn(lines, from, to) ==
    LET i == FirstLine(lines, from, to, IsEntryHeading)
    IN  IF i > to THEN <<>>
        ELSE LET e == FirstLine(lines, i + 1, to, IsEntryHeading) - 1
             IN  <<Record(lines[i].v,
                          ReadInt(FieldIn(lines, i + 1, e, "Start Page")),
                          ReadInt(FieldIn(lines, i + 1, e, "End Page")),
                          ReadInt(FieldIn(lines, i + 1, e, "Pages Read")),
                          NotesIn(lines, i + 1, e),
                          FieldIn(lines, i + 1, e, "Timestamp"))>>
                 \o EntriesIn(lines, e + 1, to)

\* the sessions of the body's Reading History section: from its header to
\* the next "#" or "##" heading
SessionsIn(body) ==
    LET H == {i \in 1..Len(body) : body[i] = HistoryHeader}
    IN  IF H = {} THEN <<>>
        ELSE EntriesIn(body, Min(H) + 1,
                       FirstLine(body, Min(H) + 1, Len(body), IsHeading) - 1)

IsItemStart(l) == l.k = "kv" /\ l.ind = 2 /\ l.key = "- date"

IsTopLevel(l) == l.ind = 0

KeyIn(lines, from, to, key) ==
    LET S == {i \in from..to : lines[i].k = "kv" /\ lines[i].key = key}
    IN  IF S = {} THEN <<>> ELSE lines[Min(S)].v

RECURSIVE ItemsIn(_, _, _)
\* the "  - date: ..." items of lines[from..to], each with the indented keys
\* that follow it
ItemsIn(lines, from, to) ==
    LET i == FirstLine(lines, from, to, IsItemStart)
    IN  IF i > to THEN <<>>
        ELSE LET e == FirstLine(lines, i + 1, to, IsItemStart) - 1
             IN  <<[date |-> Unquote(lines[i].v),
                    startPage |-> ReadInt(KeyIn(lines, i + 1, e, "startPage")),
                    endPage |-> ReadInt(KeyIn(lines, i + 1, e, "endPage")),
                    pagesRead |-> ReadInt(KeyIn(lines, i + 1, e, "pagesRead")),
                    timestamp |-> Unquote(KeyIn(lines, i + 1, e, "timestamp"))]>>
                 \o ItemsIn(lines, e + 1, to)

\* the records listed under the header's reading_history_summary key: the
\* indented lines that follow it
SummaryIn(text) ==
    LET m == matchFrontmatter(text)
        S == IF m.ok
             THEN {i \in m.from..m.to : text[i].k = "kv" /\ text[i].ind = 0
                                        /\ text[i].key = "reading_history_summary"}
             ELSE {}
    IN  IF S = {} THEN <<>>
        ELSE ItemsIn(text, Min(S) + 1, FirstLine(text, Min(S) + 1, m.to, IsTopLevel) - 1)

HeaderCount(body) == Cardinality({i \in 1..Len(body) : body[i] = HistoryHeader})

(***************************************************************************)
(* Claims about the ledger                                                 *)
(***************************************************************************)
Updated == last.op = "progress"

\* the record the last progress update created
NewRecord == log[Len(log)]

SessionsBefore == SessionsIn(BodyOf(last.before))

SessionsAfter == SessionsIn(BodyOf(content))

InSeq(x, seq) == \E i \in 1..Len(seq) : seq[i] = x

C2_AppendOnly ==
    Updated =>
        /\ \A i \in 1..Len(SessionsBefore) : InSeq(SessionsBefore[i], SessionsAfter)
        /\ \A i \in 1..Len(SummaryIn(last.before)) :
               InSeq(SummaryIn(last.before)[i], SummaryIn(content))
        /\ Len(SessionsAfter) = Len(SessionsBefore) + 1
        /\ Len(SummaryIn(content)) = Len(SummaryIn(last.before)) + 1

\* C3: an update given no start page, on a note that already holds a
\* session, starts at the endPage of the most recently recorded session.
C3_StartsAtLastEnd ==
    (Updated /\ ~last.startPage.some /\ Len(log) >= 2) =>
        /\ NewRecord.startPage = log[Len(log) - 1].endPage
        /\ NewRecord.pagesRead = Max2(0, NewRecord.endPage - log[Len(log) - 1].endPage)

\* the progress counter the header stored before the last update, 0 if none
StoredCounterBefore ==
    LET c == numberOf(extractFrontmatter(last.before).frontmatter, "read_page")
    IN  IF c.some THEN c.n ELSE 0

\* C4: an update given no start page, on a note that holds no session,
\* starts at the progress counter the header stored before the update, or
\* at 0 if none was stored.
C4_StartsAtStoredCounter ==
    (Updated /\ ~last.startPage.some /\ Len(log) = 1 /\ SessionsBefore = <<>>) =>
        NewRecord.startPage = StoredCounterBefore

Clamped(r) == r.pagesRead = Max2(0, r.endPage - r.startPage)

\* C5: every session and every summary entry a progress update writes has
\* pagesRead = max(0, endPage - startPage), also when the end page is below
\* the start page.
C5_PagesReadClamped ==
    Updated =>
        /\ Clamped(NewRecord)
        /\ \E i \in 1..Len(SessionsAfter) : summaryOf(SessionsAfter[i]) = summaryOf(NewRecord)
        /\ InSeq(summaryOf(NewRecord), SummaryIn(content))
        /\ \A i \in 1..Len(SessionsAfter) : Clamped(SessionsAfter[i])
        /\ \A i \in 1..Len(SummaryIn(content)) : Clamped(SummaryIn(content)[i])

\* an update whose end page is below its start page wrote pagesRead 0
C5_Witness ==
    /\ Updated
    /\ last.startPage.some
    /\ last.page < last.startPage.n
    /\ \E i \in 1..Len(SessionsAfter) :
           /\ SessionsAfter[i].endPage < SessionsAfter[i].startPage
           /\ SessionsAfter[i].pagesRead = 0

RECURSIVE NonBlank(_)
NonBlank(lines) ==
    IF Len(lines) = 0 THEN <<>>
    ELSE (IF IsBlank(lines[1]) THEN <<>> ELSE <<lines[1]>>) \o NonBlank(Tail(lines))

RenderedAt(body) ==
    LET H == {i \in 1..Len(body) : body[i] = HistoryHeader}
        sec == historySection(SessionsIn(body))
    IN  IF H = {} THEN [ok |-> TRUE, from |-> 1, to |-> 0]
        ELSE [ok |-> /\ Min(H) + Len(sec) - 1 <= Len(body)
                     /\ SubSeq(body, Min(H), Min(H) + Len(sec) - 1) = sec,
              from |-> Min(H), to |-> Min(H) + Len(sec) - 1]

OutsideSection(body) ==
    NonBlank(SubSeq(body, 1, RenderedAt(body).from - 1)
             \o SubSeq(body, RenderedAt(body).to + 1, Len(body)))

\* C10: a progress update leaves the body outside the Reading History
\* section as it was and leaves no fragment of the section's previous
\* rendering outside the newly rendered section.
C10_FrameOutsideSection ==
    Updated =>
        /\ RenderedAt(BodyOf(content)).ok
        /\ OutsideSection(BodyOf(content)) = OutsideSection(BodyOf(last.before))

(***************************************************************************)
(* Claims about the mapper and the codec                                   *)
(***************************************************************************)
StoredReadPage == IF numberOf(fmIn, "read_page").some THEN numberOf(fmIn, "read_page").n ELSE 0

\* the pages the summary entries of fmIn add up to
SummaryTotal ==
    LET recs == IF Has(fmIn, "reading_history_summary")
                THEN Get(fmIn, "reading_history_summary").recs
                ELSE <<>>
        upTo[i \in 0..Len(recs)] == IF i = 0 THEN 0 ELSE upTo[i - 1] + recs[i].pagesRead
    IN  upTo[Len(recs)]

\* C6: decoding a header gives currentPage = max(stored read_page, sum of
\* pagesRead over the summary), never less than the stored read_page; with
\* read_page 100 and entries summing to 150 it is 150.
C6_ReadPageReconciled ==
    stage = "decoded" =>
        /\ book.readPage = Max2(StoredReadPage, SummaryTotal)
        /\ book.readPage >= StoredReadPage
        /\ (StoredReadPage = 100 /\ SummaryTotal = 150) => book.readPage = 150

\* read_page 100 and a summary of 150 pages were decoded to 150
C6_Witness ==
    /\ stage = "decoded"
    /\ StoredReadPage = 100
    /\ SummaryTotal = 150
    /\ book.readPage = 150

KeysOf(fm) == {fm[i].key : i \in 1..Len(fm)}

\* C7: a mapping whose summary holds n >= 1 records, serialised and
\* parsed, has the same n records in the same order and no other new key.
C7_SummaryRoundTrip ==
    (stage = "parsed" /\ Has(fmIn, "reading_history_summary")
       /\ Len(Get(fmIn, "reading_history_summary").recs) >= 1) =>
        /\ Has(fmOut, "reading_history_summary")
        /\ Get(fmOut, "reading_history_summary").recs = Get(fmIn, "reading_history_summary").recs
        /\ KeysOf(fmOut) \subseteq KeysOf(fmIn)

\* C8: a mapping of scalars and scalar lists, serialised and parsed, has
\* the same keys and the same values.
C8_ScalarRoundTrip ==
    (stage = "parsed" /\ ~Has(fmIn, "reading_history_summary")) =>
        /\ KeysOf(fmOut) = KeysOf(fmIn)
        /\ \A k \in KeysOf(fmIn) : Has(fmOut, k) /\ Get(fmOut, k) = Get(fmIn, k)

(***************************************************************************)
(* Claims about the placement of the section                               *)
(***************************************************************************)
\* the section the last update rendered: the sessions it read from the body
\* and the one it created
RenderedSection ==
    historySection(Append(parseReadingHistoryFromBody(BodyOf(last.before)), NewRecord))

\* body with `section` placed by the rule: in place of the whole existing
\* section (from its header up to the next "#" or "##" heading), else before
\* the first "##" heading, else at the end
PlacedByRule(body, section) ==
    LET H == {i \in 1..Len(body) : body[i] = HistoryHeader}
        S == {i \in 1..Len(body) : body[i].k = "h2"}
    IN  IF H # {}
        THEN SubSeq(body, 1, Min(H) - 1) \o section
             \o SubSeq(body, FirstLine(body, Min(H) + 1, Len(body), IsHeading), Len(body))
        ELSE IF S # {}
        THEN SubSeq(body, 1, Min(S) - 1) \o section \o SubSeq(body, Min(S), Len(body))
        ELSE body \o section

\* C11: the rendered section replaces the whole existing section in place
\* if there is one, else is inserted before the first sub-heading, else is
\* appended at the end of the body (blank lines aside).
C11_PlacedByRule ==
    Updated =>
        NonBlank(BodyOf(content)) = NonBlank(PlacedByRule(BodyOf(last.before), RenderedSection))

(***************************************************************************)
(* Claims about the decoded book                                           *)
(***************************************************************************)
\* C12: the decoded status is "unread" when the stored status is missing or
\* is not one of unread, reading, finished; otherwise it is the stored one.
C12_StatusDefaultsToUnread ==
    stage = "decoded" =>
        book.status = IF Has(fmIn, "status") /\ Get(fmIn, "status") \in ValidStatuses
                      THEN Get(fmIn, "status")
                      ELSE Str(<<"unread">>)

\* the whitespace-separated tokens of the stored identifier field
IsbnTokens == IF Has(fmIn, "isbn") THEN splitWhitespace(Trim(toString(Get(fmIn, "isbn")))) ELSE <<>>

\* the first token of the identifier field that has n characters
FirstOfLength(n) ==
    LET S == {i \in 1..Len(IsbnTokens) : Len(IsbnTokens[i]) = n}
    IN  IF S = {} THEN NoStr ELSE SomeStr(IsbnTokens[Min(S)])

\* C13: isbn10 is the first token of length 10 of the identifier field and
\* isbn13 the first token of length 13; a later token of the same length
\* does not replace an earlier one.
C13_FirstIsbnWins ==
    stage = "decoded" =>
        /\ book.isbn10 = FirstOfLength(10)
        /\ book.isbn13 = FirstOfLength(13)

\* C15: decoding never throws, whatever the mapping holds: a summary that
\* is no list, or that holds null or non-record elements, gives a book.
C15_DecodeNeverThrows ==
    stage # "threw"

\* a finite number that is not negative
FiniteNonNegative(v) == v.t = "num" /\ v.n >= 0

\* C14: encoding a book emits no total-pages key when totalPages is absent,
\* not finite or negative, so a book with unknown totalPages decodes again
\* with totalPages unknown.
C14_TotalOmittedUnlessValid ==
    stage \in {"encoded", "converted"} =>
        /\ ~FiniteNonNegative(book.totalPages) => ~Has(fmOut, "total")
        /\ book.totalPages = Undef => frontmatterToBook(fmOut, timestampAt(0)).totalPages = Undef

(***************************************************************************)
(* Claims about the statistics                                             *)
(***************************************************************************)
\* the key before k in sorted order
KeyBefore(k) == CHOOSE j \in DOMAIN stats : j < k /\ \A i \in DOMAIN stats : i < k => i <= j

\* r is x / y rounded to the nearest integer, halves upwards
IsRounded(r, x, y) == 2 * r * y - y <= 2 * x /\ 2 * x < 2 * r * y + y

\* C16: every bucket but the first in sorted key order has change = its
\* count minus the count of the bucket before it, and changePercent = 100
\* if that count is 0 and its own is above 0, 0 if both are 0, else
\* round(change / preceding count * 100); counts 3 then 5 give 2 and 67.
C16_TrendOfBuckets ==
    stage = "trends" =>
        \A k \in DOMAIN stats :
            IF \E j \in DOMAIN stats : j < k
            THEN LET cur == stats[k].count
                     prev == stats[KeyBefore(k)].count
                 IN  /\ stats[k].hasChange
                     /\ stats[k].change = cur - prev
                     /\ IF prev = 0 THEN stats[k].changePercent = (IF cur > 0 THEN 100 ELSE 0)
                        ELSE IsRounded(stats[k].changePercent, 100 * (cur - prev), prev)
                     /\ (prev = 3 /\ cur = 5) =>
                            stats[k].change = 2 /\ stats[k].changePercent = 67
            ELSE ~stats[k].hasChange

\* the buckets 2024: 3 and 2025: 5 have their trends
C16_Witness ==
    /\ stage = "trends"
    /\ DOMAIN stats = {2024, 2025}
    /\ stats[2024].count = 3
    /\ stats[2025].count = 5
    /\ stats[2025].change = 2
    /\ stats[2025].changePercent = 67

\* the books the view holds
Shown == extractBooksFromBasesData(books)

\* the calendar dates a book touches: its start date and its session dates
Touched(b) ==
    (IF b.started = "valid" THEN {b.startLocalDay} ELSE {})
    \cup {b.dates[i] : i \in 1..Len(b.dates)}

FinishedShown == {i \in 1..Len(Shown) : Shown[i].status = "finished"}

\* C17: the average sessions-to-finish is the mean, over the finished
\* books, of the number of distinct dates each touches (rounded to the
\* nearest integer), and 0 when no finished book has a date.
C17_AverageOverFinished ==
    (stage = "rendered" /\ stats.ok) =>
        LET total == sumOf([i \in 1..Len(Shown) |->
                               IF i \in FinishedShown THEN Cardinality(Touched(Shown[i])) ELSE 0])
        IN  IF total = 0 THEN stats.averageTimeToFinish = 0
            ELSE IsRounded(stats.averageTimeToFinish, total, Cardinality(FinishedShown))

\* C18: the reading-day count is the number of distinct dates in the union
\* over all books of the start date (if any) and the session dates, a book
\* without start date included.
C18_ReadingDaysUnion ==
    (stage = "rendered" /\ stats.ok) =>
        stats.totalReadingDays = Cardinality(UNION {Touched(Shown[i]) : i \in 1..Len(Shown)})

\* a document that cannot be decoded or read
Failing(d) == ~d.decodes \/ ~d.readable \/ d.started = "invalid"

\* the statistics of the library without its failing documents
Rest == calculateStatistics(SelectSeq(books, LAMBDA d : ~Failing(d)))

\* C19: when a document fails, the aggregation still completes and every
\* other document is counted in the status counts, page sums, time buckets
\* and reading days.
C19_FailureSkipsOneDocument ==
    (stage = "rendered" /\ \E i \in 1..Len(books) : Failing(books[i])) =>
        /\ stats.ok
        /\ stats.reading >= Rest.reading
        /\ stats.unread >= Rest.unread
        /\ stats.finished >= Rest.finished
        /\ stats.totalPages >= Rest.totalPages
        /\ stats.readPages >= Rest.readPages
        /\ stats.totalReadingDays >= Rest.totalReadingDays
        /\ \A k \in DOMAIN Rest.yearlyStats :
               /\ k \in DOMAIN stats.yearlyStats
               /\ stats.yearlyStats[k].count >= Rest.yearlyStats[k].count

(***************************************************************************)
(* Claims about the timestamps                                             *)
(***************************************************************************)
\* the value of a top-level key of the header, as the text has it
HeaderValue(text, key) ==
    LET m == matchFrontmatter(text)
    IN  IF m.ok THEN Unquote(KeyIn(text, m.from, m.to, key)) ELSE <<>>

\* C20: once the header has a created timestamp, no progress update,
\* book-note update or timestamp refresh changes it: it stays the value
\* first stored.
C20_CreatedImmutable ==
    HeaderValue(content, "created") = timestampAt(0)

\* a book-note update followed a progress update and refreshed updated
C20_Witness ==
    /\ last.op = "note"
    /\ Len(log) >= 1
    /\ HeaderValue(content, "updated") = timestampAt(clock)
    /\ HeaderValue(content, "created") = timestampAt(0)

(***************************************************************************)
(* Claims about the status                                                 *)
(***************************************************************************)
\* the total page count the header holds (0: none)
KnownTotal == ReadInt(HeaderValue(content, "total"))

\* the updates whose end page is at or above the total
Finishing == {i \in 1..Len(log) : log[i].endPage >= KnownTotal}

FinishedOnce ==
    (auto /\ KnownTotal > 0 /\ Finishing # {}) =>
        /\ HeaderValue(content, "status") = <<"finished">>
        /\ HeaderValue(content, "read_finished") = log[Min(Finishing)].timestamp

DatesKept ==
    /\ HeaderValue(content, "read_started") # <<>> =>
           HeaderValue(content', "read_started") = HeaderValue(content, "read_started")
    /\ HeaderValue(content, "read_finished") # <<>> =>
           HeaderValue(content', "read_finished") = HeaderValue(content, "read_finished")
    /\ HeaderValue(content, "status") = <<"finished">> =>
           HeaderValue(content', "status") = <<"finished">>

\* C21: with auto status change on and a total above 0, once some update
\* has an end page at or above the total the status is finished and
\* read_finished holds the time of the first such update; updates never
\* overwrite a set read_started or read_finished and never move the status
\* back from finished.
C21_FinishedAtFirstCompletion == []FinishedOnce /\ [][DatesKept]_vars

(***************************************************************************)
(* Claims about legacy entries                                             *)
(***************************************************************************)
\* the lines of the body's entries: from each "###" line to the next
EntryStarts == {i \in 1..Len(content) : content[i].k = "h3"}

EntryEnd(i) == Min({j \in EntryStarts : j > i} \cup {Len(content) + 1}) - 1

\* the value of the first of the spellings, in their order, that the entry
\* at line i has (0: none)
ByPriority(i, spellings) ==
    LET present == {n \in 1..Len(spellings) :
                       \E j \in i..EntryEnd(i) :
                           content[j].k = "label" /\ content[j].key = spellings[n]}
    IN  IF present = {} THEN 0
        ELSE LET j == CHOOSE j \in i..EntryEnd(i) :
                          content[j].k = "label" /\ content[j].key = spellings[Min(present)]
             IN  ParseInt(content[j].v)

WellFormed == {i \in EntryStarts : IsDate(content[i].v) /\ EntryEnd(i) > i}

\* the n-th smallest element of a set of numbers
Nth(S, n) == CHOOSE x \in S : Cardinality({y \in S : y <= x}) = n

\* the parsed list is the well-formed entries, each with its fields
ParsedWellFormed ==
    /\ Len(log) = Cardinality(WellFormed)
    /\ \A n \in 1..Len(log) :
        LET i == Nth(WellFormed, n)
        IN  /\ log[n].date = content[i].v
            /\ log[n].startPage = ByPriority(i, <<"Start Page", "Start", "From">>)
            /\ log[n].endPage = ByPriority(i, <<"End Page", "End", "To", "Page">>)

\* C22: a re-parsed legacy entry takes each field from the first spelling,
\* in the field's priority order, that the entry has: "Start Page: 10" and
\* "End Page: 50" give startPage 10 and endPage 50, and "Page" gives the
\* end page only when "End Page", "End" and "To" are absent.
C22_FirstSpellingWins ==
    (stage = "parsed" /\ WellFormed = EntryStarts) => ParsedWellFormed

\* C23: when one entry of the section cannot be parsed, the parsed list
\* holds every well-formed entry with its field values and no session for
\* the unparseable one.
C23_MalformedEntrySkipped ==
    (stage = "parsed" /\ Cardinality(EntryStarts \ WellFormed) = 1) => ParsedWellFormed

(***************************************************************************)
(* Claims about the timestamp refresh                                      *)
(***************************************************************************)
\* C24: the refresh does not loop forever: the writes the handler performs
\* in response to the modify events of its own writes stop after finitely
\* many, so that in the end no handler is in flight.
C24_RefreshSettles == <>[](sched.running = EmptyBag)

\* after a modification by the user and a second later, the handler has
\* written the new timestamp and no handler is in flight
C24_Witness ==
    /\ sched.edits >= 1
    /\ clock >= 1
    /\ last.op = "refresh"
    /\ HeaderValue(content, "updated") = timestampAt(clock)
    /\ sched.running = EmptyBag

\* the line of a top-level key of the header (0: none)
KeyLine(text, key) ==
    LET m == matchFrontmatter(text)
        S == IF m.ok
             THEN {i \in m.from..m.to : text[i].k = "kv" /\ text[i].ind = 0 /\ text[i].key = key}
             ELSE {}
    IN  IF S = {} THEN 0 ELSE Min(S)

TopKeys(text) ==
    LET m == matchFrontmatter(text)
    IN  IF m.ok
        THEN {text[i].key : i \in {j \in m.from..m.to : text[j].k = "kv" /\ text[j].ind = 0}}
        ELSE {}

\* what a key holds, however it is written: the scalar without its quotes,
\* the elements of a list written in brackets or as indented items, the
\* fields of the records below the key
Held(text, key) ==
    LET i == KeyLine(text, key)
        v == text[i].v
        m == matchFrontmatter(text)
        e == Min({j \in (i + 1)..m.to : text[j].ind = 0} \cup {m.to + 1}) - 1
        inner == Trim(Slice1(v))
        parts == SplitComma(inner)
    IN  IF StartsWith(v, "[") /\ EndsWith(v, "]")
        THEN IF inner = <<>> THEN <<>>
             ELSE [j \in 1..Len(parts) |-> <<"", Unquote(Trim(parts[j]))>>]
        ELSE IF v = <<>> THEN [j \in 1..(e - i) |-> <<text[i + j].key, Unquote(text[i + j].v)>>]
        ELSE <<<<"", Unquote(v)>>>>

\* C27: a timestamp refresh changes only the updated field: the body and
\* every other header key, a key with an empty string or an empty list and
\* the reading_history_summary records included, are the same after the
\* handler's write as before it.
C27_RefreshTouchesOnlyUpdated ==
    last.op = "refresh" =>
        /\ BodyOf(content) = BodyOf(last.before)
        /\ \A k \in TopKeys(last.before) \ {"updated"} :
               /\ k \in TopKeys(content)
               /\ Held(content, k) = Held(last.before, k)

\* C28: however the auto-update-timestamp setting is switched off and on
\* after the plugin has loaded, at most one modify listener of the refresh
\* is registered, so one modification starts at most one refresh pass.
C28_OneListener == sched.listeners <= 1

(***************************************************************************)
(* Claims about the view                                                   *)
(***************************************************************************)
\* the notifications the connected view has taken
NotifiedAt == {sched.notified[i] : i \in 1..Len(sched.notified)}

\* C25: notifications less than 500 ms apart give exactly one render,
\* started 500 ms after the last of them, and no pending timer starts a
\* render once the view has been unloaded: every render starts 500 ms after
\* a notification that no other notification follows before the render, no
\* two renders start at the same time, and none starts after the unload.
C25_OneRenderPerBurst ==
    \A i \in 1..Len(sched.renders) :
        LET r == sched.renders[i]
        IN  /\ ~r.unloaded
            /\ (r.at - DebounceMs) \in NotifiedAt
            /\ \A n \in NotifiedAt : ~(r.at - DebounceMs < n /\ n < r.at)
            /\ \A j \in 1..Len(sched.renders) : j # i => sched.renders[j].at # r.at

(***************************************************************************)
(* Claims about updates of one note that overlap                           *)
(***************************************************************************)
\* C26: updates of one document are serialised: a progress update writes
\* the text it made from the document as the update before it left it, and
\* a timestamp refresh that overlaps a progress update leaves the sessions
\* of the summary and of the body in the document.
C26_UpdatesSerialised ==
    /\ last.op = "progress" => last.read = last.before
    /\ last.op = "refresh" =>
           /\ SessionsIn(BodyOf(content)) = SessionsIn(BodyOf(last.before))
           /\ SummaryIn(content) = SummaryIn(last.before)

(***************************************************************************)
(* Claims about the page counts after progress updates                     *)
(***************************************************************************)
\* C29: after progress updates that give no start page and whose end pages
\* never go back, on a note that began with no history and no progress, the
\* pagesRead of the header's summary records add up to the stored
\* read_page, which is the end page of the last update, and the decoded
\* header has that page as its current page.
C29_SummaryAddsUpToReadPage ==
    log # <<>> =>
        LET fm == parseFrontmatter(content)
            lastEnd == log[Len(log)].endPage
        IN  /\ sumPagesRead(SummaryIn(content)) = lastEnd
            /\ numberOf(fm, "read_page") = Some(lastEnd)
            /\ calculateReadPage(fm) = lastEnd

(***************************************************************************)
(* Claims about the header block of a rewritten note                       *)
(***************************************************************************)
\* the body the last operation joined to the header it wrote
BodyWritten ==
    LET x == extractFrontmatter(last.before)
    IN  IF last.op = "progress"
        THEN updateReadingHistoryInBody(
                 x.body, Append(parseReadingHistoryFromBody(x.body), log[Len(log)]))
        ELSE x.body

\* the text has a header block and the text after it does not begin with
\* another one
OneHeaderBlock(text) ==
    /\ matchFrontmatter(text).ok
    /\ LET body == extractFrontmatter(text).body
       IN  body = <<>> \/ body[1] # Delim

\* C30: after a header update or a progress update the note has exactly one
\* header block, and splitting the written text gives back the body that
\* was written and, for a header update, the metadata that was written; a
\* header the note already had is not left in the body under a second one.
C30_OneHeaderBlock ==
    last.op \in {"header", "progress"} =>
        /\ OneHeaderBlock(content)
        /\ extractFrontmatter(content).body = BodyWritten
        /\ last.op = "header" =>
               extractFrontmatter(content).frontmatter
                   = mergeUpdates(extractFrontmatter(last.before).frontmatter, fmIn)

====
